---- MODULE Spec2Model ----
(***************************************************************************)
(* State-machine model of the Stickon AI client (whiterven/3notes):        *)
(* the note collection of App.tsx with its optimistic / echo-based         *)
(* persistence protocol, the debounced position writer, the stacking       *)
(* state machine and the drag-vs-click recogniser of CanvasNote.           *)
(***************************************************************************)
EXTENDS Integers, Sequences, FiniteSets, TLC

(***************************************************************************)
(* Bounds of the model.                                                    *)
(***************************************************************************)
\* ids the store hands out, that is notes created in a run
MaxId == 2
\* store requests that may be outstanding (sent or answered, not yet resumed)
MaxInFlight == 1
\* timers that may be pending at once
MaxTimers == 2
\* pointer coordinates range over 0..MaxCoord (screen pixels)
MaxCoord == 7

(***************************************************************************)
(* Exact rationals <<n, d>> with d > 0 in lowest terms; JavaScript numbers *)
(* are modelled without rounding.  <<0, 0>> stands for null.               *)
(***************************************************************************)
Abs(i) == IF i < 0 THEN -i ELSE i

RECURSIVE Gcd(_, _)
Gcd(a, b) == IF b = 0 THEN a ELSE Gcd(b, a % b)

Rat(n, d) ==
    LET s == IF d < 0 THEN -1 ELSE 1
        g == Gcd(Abs(n), Abs(d))
    IN  <<(s * n) \div g, (s * d) \div g>>

R(i) == <<i, 1>>
RAdd(a, b) == Rat(a[1] * b[2] + b[1] * a[2], a[2] * b[2])
RSub(a, b) == Rat(a[1] * b[2] - b[1] * a[2], a[2] * b[2])
RDiv(a, b) == Rat(a[1] * b[2], a[2] * b[1])
RMul(a, b) == Rat(a[1] * b[1], a[2] * b[2])

NullNum == <<0, 0>>
\* the JavaScript idiom  v || 0
OrZero(v) == IF v = NullNum THEN R(0) ELSE v

(***************************************************************************)
(* Notes.  An id is a positive integer; Null (0) is the null id.           *)
(***************************************************************************)
Null == 0
Ids == 1..MaxId
Texts == {"a", "b"}

Note(i, t, s, p, x, y) ==
    [id |-> i, text |-> t, stack_id |-> s, is_pinned |-> p,
     canvas_x |-> x, canvas_y |-> y]

\* the payload of a created note: canvas position 0,0 and not pinned
NewNotePayload(t) == Note(Null, t, Null, FALSE, R(0), R(0))

IdsOf(ns) == {ns[i].id : i \in 1..Len(ns)}
Find(ns, i) == ns[CHOOSE k \in 1..Len(ns) : ns[k].id = i]

\* Array.prototype.filter / map
FilterOut(ns, i) == SelectSeq(ns, LAMBDA n : n.id # i)
MapNotes(ns, F(_)) == [k \in 1..Len(ns) |-> F(ns[k])]

\* { ...row, ...patch }
ApplyPatch(row, patch) ==
    [f \in DOMAIN row |-> IF f \in DOMAIN patch THEN patch[f] ELSE row[f]]

\* the handler or continuation that ran, with the id handed to the stacking
\* handlers
Op(o, i) == [op |-> o, id |-> i]

NoToast == [message |-> "", type |-> "none"]
Toast(m, t) == [message |-> m, type |-> t]

(***************************************************************************)
(* App.tsx: filteredNotes and carouselNotes.  Strings are TLA+ strings;    *)
(* a note may lack the summary, tags and is_pinned fields.                 *)
(***************************************************************************)
\* String.prototype.toLowerCase on the letters the model uses
LowerChar(c) ==
    CASE c = "A" -> "a" [] c = "B" -> "b" [] c = "C" -> "c" [] OTHER -> c

RECURSIVE ToLowerCase(_)
ToLowerCase(str) ==
    IF Len(str) = 0 THEN ""
    ELSE LowerChar(SubSeq(str, 1, 1)) \o ToLowerCase(SubSeq(str, 2, Len(str)))

\* String.prototype.includes
Includes(str, part) ==
    \E k \in 0..(Len(str) - Len(part)) : SubSeq(str, k + 1, k + Len(part)) = part

HasSummary(n) == "summary" \in DOMAIN n /\ Len(n.summary) > 0
HasTags(n) == "tags" \in DOMAIN n
IsPinned(n) == "is_pinned" \in DOMAIN n /\ n.is_pinned

\* a slip: the text is compared without lowering its case
SearchMatchCased(n, term) ==
    IF Len(ToLowerCase(term)) > 0
    THEN \/ Includes(n.text, ToLowerCase(term))
         \/ HasSummary(n) /\ Includes(ToLowerCase(n.summary), ToLowerCase(term))
         \/ HasTags(n) /\ \E k \in 1..Len(n.tags) :
                Includes(ToLowerCase(n.tags[k]), ToLowerCase(term))
    ELSE TRUE

\* searchMatch of filteredNotes
SearchMatch(n, term) ==
    IF Len(ToLowerCase(term)) > 0
    THEN \/ Includes(ToLowerCase(n.text), ToLowerCase(term))
         \/ HasSummary(n) /\ Includes(ToLowerCase(n.summary), ToLowerCase(term))
         \/ HasTags(n) /\ \E k \in 1..Len(n.tags) :
                Includes(ToLowerCase(n.tags[k]), ToLowerCase(term))
    ELSE TRUE

\* tagsMatch of filteredNotes
TagsMatch(n, tags) ==
    IF Len(tags) > 0
    THEN \A j \in 1..Len(tags) :
             HasTags(n) /\ \E k \in 1..Len(n.tags) : n.tags[k] = tags[j]
    ELSE TRUE

\* a slip: the comparator puts unpinned notes first
PinCompareFlipped(a, b) ==
    IF IsPinned(a) /\ ~ IsPinned(b) THEN 1
    ELSE IF ~ IsPinned(a) /\ IsPinned(b) THEN -1
    ELSE 0

\* the comparator handed to Array.prototype.sort
PinCompare(a, b) ==
    IF IsPinned(a) /\ ~ IsPinned(b) THEN -1
    ELSE IF ~ IsPinned(a) /\ IsPinned(b) THEN 1
    ELSE 0

\* Array.prototype.sort: a stable sort, here by insertion from the left
InsertSorted(sorted, n) ==
    LET later == {k \in 1..Len(sorted) : PinCompare(n, sorted[k]) < 0}
        at == IF later = {} THEN Len(sorted) + 1
              ELSE CHOOSE k \in later : \A j \in later : k <= j
    IN  SubSeq(sorted, 1, at - 1) \o <<n>> \o SubSeq(sorted, at, Len(sorted))

RECURSIVE SortPinned(_)
SortPinned(ns) ==
    IF Len(ns) = 0 THEN <<>>
    ELSE InsertSorted(SortPinned(SubSeq(ns, 1, Len(ns) - 1)), ns[Len(ns)])

FilteredNotes(ns, term, tags) ==
    SortPinned(SelectSeq(ns, LAMBDA n : SearchMatch(n, term) /\ TagsMatch(n, tags)))

\* filteredNotes.filter(note => !note.stack_id)
CarouselNotes(ns, term, tags) ==
    SelectSeq(FilteredNotes(ns, term, tags), LAMBDA n : n.stack_id = Null)

\* a slip: the position is counted from 1
FindIndexFromOne(ns, i) ==
    IF i \in IdsOf(ns) THEN CHOOSE k \in 1..Len(ns) : ns[k].id = i ELSE -1

\* carouselNotes.findIndex(n => n.id === id), counted from 0; -1 when absent
FindIndex(ns, i) ==
    IF i \in IdsOf(ns) THEN (CHOOSE k \in 1..Len(ns) : ns[k].id = i) - 1 ELSE -1

VARIABLES
    notes,           \* App: the local note collection (useState notes)
    db,              \* the rows the store holds
    nextId,          \* the next id the store assigns
    requests,        \* store calls sent and not yet processed
    responses,       \* store answers not yet resumed by the awaiting handler
    stackingNoteId,  \* App: source of the stacking gesture, Null when inactive
    toast,           \* App: the notification shown
    viewingNote,     \* App: id of the note shown in the view modal, or Null
    timers,          \* pending setTimeout callbacks [handle, args]
    timeout,         \* debounce: the handle held in the closure variable
    burst,           \* history: ids (and number of calls, 2 = two or more) the
                     \*   debounced writer got since it last started from idle
    pendingPos,      \* history: per id, the last position not yet dispatched
    lastOp,          \* history: the handler, continuation or store step that ran last
    dragData,        \* CanvasNote: the dragData ref
    dragNote,        \* CanvasNote: the note prop of the component under the pointer
    scale,           \* InfiniteCanvas: transform.scale handed to CanvasNote
    gesture,         \* history: what the current press-move-release did
    searchTerm,      \* App: the search box
    activeTags,      \* App: the active tag filters
    viewMode,        \* App: "carousel" or "canvas"
    activeIndex,     \* App: index of the active carousel slide, from 0
    offset,          \* InfiniteCanvas: transform.x and transform.y
    panning,         \* InfiniteCanvas: isPanningRef and startPanPos
    pinchStartDistance, \* InfiniteCanvas: the pinchStartDistance ref
    zoomed,          \* history: the last zoom-at-point step and the steps taken
    probe,           \* inputs and results of the functions checked on their own
    session,         \* App: TRUE while a session with a user is held
    inFlightCap      \* bound: the store calls that may be outstanding together

sessionVars == <<session, inFlightCap>>
storeVars == <<db, nextId, requests, responses>>
timerVars == <<timers, timeout, burst, pendingPos>>
dragVars == <<dragData, dragNote, scale, gesture, viewingNote>>
filterVars == <<searchTerm, activeTags, viewMode>>
viewVars == <<searchTerm, activeTags, viewMode, activeIndex>>
canvasVars == <<offset, panning, pinchStartDistance, zoomed>>
vars == <<notes, db, nextId, requests, responses, stackingNoteId, toast,
          viewingNote, timers, timeout, burst, pendingPos, lastOp,
          dragData, dragNote, scale, gesture, searchTerm, activeTags,
          viewMode, activeIndex, offset, panning, pinchStartDistance,
          zoomed, probe, sessionVars>>

appVars == <<notes, db, nextId, requests, responses, stackingNoteId, toast,
             viewingNote, timers, timeout, burst, pendingPos, lastOp,
             dragData, dragNote, scale, gesture, searchTerm, activeTags,
             viewMode, activeIndex, offset, panning, pinchStartDistance,
             zoomed, sessionVars>>

\* useEffect(() => setActiveIndex(0), [carouselNotes.length]): after a
\* render in which the length differs the index is 0
ResetIndex(idx, before, after) == IF Len(after) # Len(before) THEN 0 ELSE idx

\* the effect after a handler changed the notes
ResetEffect ==
    activeIndex' = ResetIndex(activeIndex,
                              CarouselNotes(notes, searchTerm, activeTags),
                              CarouselNotes(notes', searchTerm, activeTags))


(***************************************************************************)
(* Store calls.  A call is sent by a handler (requests), processed by the  *)
(* store (responses) and resumed by the awaiting handler.                  *)
(***************************************************************************)
NoPatch == [none |-> TRUE]

Req(r, k, o, i, p, orig) ==
    [rid |-> r, kind |-> k, origin |-> o, id |-> i, patch |-> p, orig |-> orig]

Reply(q, success, rows) ==
    [rid |-> q.rid, kind |-> q.kind, origin |-> q.origin, id |-> q.id,
     patch |-> q.patch, orig |-> q.orig, ok |-> success, data |-> rows]

Outstanding == {q.rid : q \in requests} \cup {q.rid : q \in responses}
CanSend == Cardinality(Outstanding) < inFlightCap
FreshRid == CHOOSE r \in 1..(inFlightCap + 1) : r \notin Outstanding

Send(k, o, i, p, orig) ==
    requests' = requests \cup {Req(FreshRid, k, o, i, p, orig)}

NoPan == [isPanning |-> FALSE, x |-> R(0), y |-> R(0)]
NoZoom == [steps |-> 0, kind |-> "none", anchor |-> <<R(0), R(0)>>,
           used |-> R(1), before |-> [x |-> R(0), y |-> R(0), scale |-> R(1)]]
NoProbe == [fn |-> "none"]

NoGesture ==
    [phase |-> "none", drags |-> 0, views |-> 0, commits |-> 0,
     press |-> <<0, 0>>, release |-> <<0, 0>>, reach |-> 0, moveReach |-> 0,
     startPos |-> <<R(0), R(0)>>, committed |-> <<NullNum, NullNum>>,
     legacy |-> [kind |-> "none", x |-> NullNum, y |-> NullNum]]

\* the client's state with the rows and the zoom given
InitClient(rows, loaded, s) ==
    /\ notes = loaded
    /\ db = rows
    /\ nextId = Cardinality(rows) + 1
    /\ requests = {}
    /\ responses = {}
    /\ stackingNoteId = Null
    /\ toast = NoToast
    /\ viewingNote = Null
    /\ timers = {}
    /\ timeout = 0
    /\ burst = [ids |-> {}, changes |-> 0]
    /\ pendingPos = [i \in Ids |-> <<NullNum, NullNum>>]
    /\ lastOp = Op("init", Null)
    /\ dragData = [isDragging |-> FALSE, startX |-> 0, startY |-> 0,
                   startNoteX |-> R(0), startNoteY |-> R(0), hasMoved |-> FALSE]
    /\ dragNote = Null
    /\ scale = s
    /\ gesture = NoGesture
    /\ searchTerm = ""
    /\ activeTags = <<>>
    /\ viewMode = "carousel"
    /\ activeIndex = 0
    /\ offset = <<R(0), R(0)>>
    /\ panning = NoPan
    /\ pinchStartDistance = 0
    /\ zoomed = NoZoom

\* the state after sign-in and the first fetch
InitApp(rows, loaded, s) ==
    /\ InitClient(rows, loaded, s)
    /\ session = TRUE
    /\ inFlightCap = MaxInFlight

InitWith(rows, loaded, s) == InitApp(rows, loaded, s) /\ probe = NoProbe

\* rows a store can hold at sign-in, and the collection fetched from it
\* (newest first)
LoadedRows == {Note(1, "a", Null, FALSE, NullNum, NullNum),
               Note(2, "a", Null, FALSE, R(3), Rat(1, 2))}
LoadedNotes == <<Note(2, "a", Null, FALSE, R(3), Rat(1, 2)),
                 Note(1, "a", Null, FALSE, NullNum, NullNum)>>

\* an empty store and the canvas at its initial zoom
Init == InitWith({}, <<>>, R(1))

(***************************************************************************)
(* The record store (section 6 of the specification): update returns the  *)
(* full updated row, delete and position writes return nothing.  Any call  *)
(* may be refused, and a refused call changes no row.                      *)
(***************************************************************************)
RowsWithout(rows, i) == {r \in rows : r.id # i}

clientVars == <<notes, stackingNoteId, toast, viewingNote, timers, timeout,
                burst, pendingPos, dragData, dragNote, scale, gesture,
                viewVars, canvasVars, probe, sessionVars>>

Answer(q, success, rows) ==
    /\ requests' = requests \ {q}
    /\ responses' = responses \cup {Reply(q, success, rows)}
    /\ lastOp' = Op("store", Null)

StoreUpdate ==
    \E q \in requests :
        /\ q.kind = "update"
        /\ \E r \in db : r.id = q.id
        /\ LET row == ApplyPatch(CHOOSE r \in db : r.id = q.id, q.patch)
           IN  /\ db' = RowsWithout(db, q.id) \cup {row}
               /\ Answer(q, TRUE, <<row>>)
        /\ UNCHANGED <<nextId, clientVars>>

\* .single() finds no row: the call answers with an error
StoreUpdateNoRow ==
    \E q \in requests :
        /\ q.kind = "update"
        /\ ~ \E r \in db : r.id = q.id
        /\ Answer(q, FALSE, <<>>)
        /\ UNCHANGED <<db, nextId, clientVars>>

StoreInsert ==
    \E q \in requests :
        /\ q.kind = "insert"
        /\ LET row == ApplyPatch(q.patch, [id |-> nextId])
           IN  /\ db' = db \cup {row}
               /\ Answer(q, TRUE, <<row>>)
        /\ nextId' = nextId + 1
        /\ UNCHANGED clientVars

StoreDelete ==
    \E q \in requests :
        /\ q.kind = "delete"
        /\ db' = RowsWithout(db, q.id)
        /\ Answer(q, TRUE, <<>>)
        /\ UNCHANGED <<nextId, clientVars>>

StoreDeleteAll ==
    \E q \in requests :
        /\ q.kind = "deleteAll"
        /\ db' = {}
        /\ Answer(q, TRUE, <<>>)
        /\ UNCHANGED <<nextId, clientVars>>

StorePosition ==
    \E q \in requests :
        /\ q.kind = "position"
        /\ db' = {IF r.id = q.id THEN ApplyPatch(r, q.patch) ELSE r : r \in db}
        /\ Answer(q, TRUE, <<>>)
        /\ UNCHANGED <<nextId, clientVars>>

StoreRefuse ==
    \E q \in requests :
        /\ q.kind # "read"
        /\ Answer(q, FALSE, <<>>)
        /\ UNCHANGED <<db, nextId, clientVars>>

(***************************************************************************)
(* App.tsx: creating, editing and deleting notes.  A handler runs up to    *)
(* its await in one step; the code after the await is a step of its own,   *)
(* taken when the store's answer is resumed.                               *)
(***************************************************************************)
Resume(a) == responses' = responses \ {a}

\* a slip: only the text of the echoed record reaches the local note
ReplaceByIdTextOnly(ns, i, data) ==
    MapNotes(ns, LAMBDA n : IF n.id = i THEN [n EXCEPT !.text = data.text] ELSE n)

\* a slip: an echoed record without a local note is added
ReplaceByIdOrAdd(ns, i, data) ==
    IF i \in IdsOf(ns)
    THEN MapNotes(ns, LAMBDA n : IF n.id = i THEN data ELSE n)
    ELSE Append(ns, data)

\* setNotes(prev => prev.map(n => (n.id === id ? data : n)))
ReplaceById(ns, i, data) == MapNotes(ns, LAMBDA n : IF n.id = i THEN data ELSE n)

\* a slip: the failed delete leaves the optimistic removal in place
RevertDeleteKeep(cur, originalNotes) == cur

\* setNotes(originalNotes)
RevertDelete(cur, originalNotes) == originalNotes

\* inserts still under way: the store's id counter stays within MaxId
InsertsSent == Cardinality({q \in requests : q.kind = "insert"})

\* handleSaveNote without a session: the message, and nothing is sent
NotLoggedIn ==
    /\ toast' = Toast("You must be logged in to save notes.", "error")
    /\ lastOp' = Op("handleSaveNote.return", Null)

\* handleSaveNote, create branch, up to the await
SaveNewNote ==
    \E t \in Texts :
        /\ CanSend
        /\ nextId + InsertsSent <= MaxId
        /\ IF session
           THEN /\ Send("insert", "save", Null, NewNotePayload(t), <<>>)
                /\ toast' = toast
                /\ lastOp' = Op("handleSaveNote.create", Null)
           ELSE /\ NotLoggedIn
                /\ requests' = requests
        /\ UNCHANGED <<notes, db, nextId, responses, stackingNoteId,
                       timerVars, dragVars, viewVars,
                       canvasVars, probe, sessionVars>>

SaveNewNoteResume ==
    \E a \in responses :
        /\ a.kind = "insert"
        /\ Resume(a)
        /\ IF a.ok
           THEN /\ notes' = <<a.data[1]>> \o notes
                /\ toast' = toast
                /\ lastOp' = Op("handleSaveNote.created", Null)
           ELSE /\ notes' = notes
                /\ toast' = Toast("Error creating note", "error")
                /\ lastOp' = Op("handleSaveNote.createFailed", Null)
        /\ UNCHANGED <<db, nextId, requests, stackingNoteId, timerVars, dragVars, filterVars,
                       canvasVars, probe, sessionVars>>
        /\ ResetEffect

\* handleSaveNote, update branch: the form writes the text and either keeps
\* the stack parent or clears it
SaveEditedNote ==
    \E i \in IdsOf(notes), t \in Texts, keep \in BOOLEAN :
        /\ CanSend
        /\ IF session
           THEN /\ Send("update", "save", i,
                        [text |-> t,
                         stack_id |-> IF keep THEN Find(notes, i).stack_id
                                      ELSE Null],
                        <<>>)
                /\ toast' = toast
                /\ lastOp' = Op("handleSaveNote.update", Null)
           ELSE /\ NotLoggedIn
                /\ requests' = requests
        /\ UNCHANGED <<notes, db, nextId, responses, stackingNoteId,
                       timerVars, dragVars, viewVars,
                       canvasVars, probe, sessionVars>>

\* handleAiUpdateNote: the id comes from the assistant, not from the collection
AiUpdateNote ==
    \E i \in Ids, t \in Texts :
        /\ CanSend
        /\ Send("update", "ai", i, [text |-> t], <<>>)
        /\ lastOp' = Op("handleAiUpdateNote", Null)
        /\ UNCHANGED <<notes, db, nextId, responses, stackingNoteId, toast,
                       timerVars, dragVars, viewVars,
                       canvasVars, probe, sessionVars>>

\* deleteNote up to the await: snapshot, optimistic removal, delete call
DeleteNote ==
    \E i \in IdsOf(notes) :
        /\ CanSend
        /\ notes' = FilterOut(notes, i)
        /\ Send("delete", "delete", i, NoPatch, notes)
        /\ lastOp' = Op("deleteNote", Null)
        /\ UNCHANGED <<db, nextId, responses, stackingNoteId, toast,
                       timerVars, dragVars, filterVars,
                       canvasVars, probe, sessionVars>>
        /\ ResetEffect

DeleteNoteResume ==
    \E a \in responses :
        /\ a.kind = "delete"
        /\ Resume(a)
        /\ IF a.ok
           THEN /\ UNCHANGED <<notes, toast>>
                /\ lastOp' = Op("deleteNote.done", Null)
           ELSE /\ notes' = RevertDelete(notes, a.orig)
                /\ toast' = Toast("Error deleting note", "error")
                /\ lastOp' = Op("deleteNote.failed", Null)
        /\ UNCHANGED <<db, nextId, requests, stackingNoteId, timerVars, dragVars, filterVars,
                       canvasVars, probe, sessionVars>>
        /\ ResetEffect

\* handleDeleteAllNotes: the collection is emptied only after the store agreed
DeleteAllNotes ==
    /\ CanSend
    /\ Send("deleteAll", "deleteAll", Null, NoPatch, <<>>)
    /\ lastOp' = Op("handleDeleteAllNotes", Null)
    /\ UNCHANGED <<notes, db, nextId, responses, stackingNoteId, toast,
                   timerVars, dragVars, viewVars,
                   canvasVars, probe, sessionVars>>

DeleteAllNotesResume ==
    \E a \in responses :
        /\ a.kind = "deleteAll"
        /\ Resume(a)
        /\ IF a.ok
           THEN /\ notes' = <<>>
                /\ toast' = Toast("All notes have been deleted.", "success")
                /\ lastOp' = Op("handleDeleteAllNotes.done", Null)
           ELSE /\ notes' = notes
                /\ toast' = Toast("Error deleting notes", "error")
                /\ lastOp' = Op("handleDeleteAllNotes.failed", Null)
        /\ UNCHANGED <<db, nextId, requests, stackingNoteId, timerVars, dragVars, filterVars,
                       canvasVars, probe, sessionVars>>
        /\ ResetEffect


(***************************************************************************)
(* App.tsx: single-field updates through updateNoteInDbAndState, and the   *)
(* stacking state machine.                                                 *)
(***************************************************************************)
SendUpdate(o, i, p) ==
    /\ CanSend
    /\ Send("update", o, i, p, <<>>)
    /\ UNCHANGED <<notes, db, nextId, responses, stackingNoteId, toast,
                   timerVars, dragVars, viewVars,
                   canvasVars, probe, sessionVars>>

\* handleTogglePin
TogglePin ==
    \E i \in IdsOf(notes) :
        /\ SendUpdate("pin", i, [is_pinned |-> ~ Find(notes, i).is_pinned])
        /\ lastOp' = Op("handleTogglePin", Null)

\* handleUnstackNote
UnstackNote ==
    \E i \in IdsOf(notes) :
        /\ SendUpdate("unstack", i, [stack_id |-> Null])
        /\ lastOp' = Op("handleUnstackNote", Null)

\* handleTextUpdate (handleSummarize, handleFindTasks, handleFindRelatedNotes,
\* handleExpandNote and handleTranscribe write their field the same way)
TextUpdate ==
    \E i \in IdsOf(notes), t \in Texts :
        /\ SendUpdate("text", i, [text |-> t])
        /\ lastOp' = Op("handleTextUpdate", Null)

\* a slip: start-stacking always arms
ToggleStackArm(current, i) == i

\* setStackingNoteId(current => (current === id ? null : id))
ToggleStack(current, i) == IF current = i THEN Null ELSE i

\* handleStartStack(id)
handleStartStack(i) ==
    /\ stackingNoteId' = ToggleStack(stackingNoteId, i)
    /\ lastOp' = Op("handleStartStack", i)
    /\ UNCHANGED <<notes, storeVars, toast, timerVars, dragVars, viewVars,
                   canvasVars, probe, sessionVars>>

\* handleStartStack with the id of any note of the collection
StartStack == \E i \in IdsOf(notes) : handleStartStack(i)

\* the close button of the stacking banner, rendered while stacking
CancelStack ==
    /\ stackingNoteId # Null
    /\ stackingNoteId' = Null
    /\ lastOp' = Op("cancelStack", Null)
    /\ UNCHANGED <<notes, storeVars, toast, timerVars, dragVars, viewVars,
                   canvasVars, probe, sessionVars>>

\* a slip: the self-target test is missing
FinishStackProceedsSelf(source, targetId) == source # Null

\* if (!stackingNoteId || stackingNoteId === targetId) return;
FinishStackProceeds(source, targetId) == source # Null /\ source # targetId

\* a slip: source and target are swapped
StackWriteSwapped(source, targetId) == [id |-> targetId, patch |-> [stack_id |-> source]]

\* updateNoteInDbAndState(stackingNoteId, { stack_id: targetId })
StackWrite(source, targetId) == [id |-> source, patch |-> [stack_id |-> targetId]]

\* handleFinishStack(targetId) up to the await
handleFinishStack(targetId) ==
    IF FinishStackProceeds(stackingNoteId, targetId)
    THEN LET w == StackWrite(stackingNoteId, targetId)
         IN  /\ SendUpdate("stack", w.id, w.patch)
             /\ lastOp' = Op("handleFinishStack", targetId)
    ELSE /\ lastOp' = Op("handleFinishStack.return", targetId)
         /\ UNCHANGED <<notes, storeVars, stackingNoteId, toast,
                        timerVars, dragVars, viewVars,
                        canvasVars, probe, sessionVars>>

\* handleFinishStack with the id of any note of the collection
FinishStack == \E targetId \in IdsOf(notes) : handleFinishStack(targetId)

UpdateError(origin) ==
    CASE origin = "stack" -> "Error stacking note"
      [] origin = "pin" -> "Error pinning note"
      [] origin = "unstack" -> "Error unstacking note"
      [] origin = "text" -> "Error saving update"
      [] origin = "ai" -> "AI failed to update note"
      [] OTHER -> "Error updating note"

UpdateSuccess(origin, shown) ==
    CASE origin = "stack" -> Toast("Notes stacked successfully!", "success")
      [] origin = "unstack" -> Toast("Note unstacked!", "success")
      [] origin = "ai" -> Toast("AI has updated the note!", "success")
      [] OTHER -> shown

\* a slip: the stacking state is cleared whatever the store answered
StackingAfterAlways(origin, success, current) ==
    IF origin = "stack" THEN Null ELSE current

\* handleFinishStack: setStackingNoteId(null) follows the await inside the
\* try, so it runs only when the write succeeded
StackingAfter(origin, success, current) ==
    IF origin = "stack" /\ success THEN Null ELSE current

\* the code after the await of an update, in updateNoteInDbAndState,
\* handleSaveNote or handleAiUpdateNote, and then in the handler that called
UpdateResume ==
    \E a \in responses :
        /\ a.kind = "update"
        /\ Resume(a)
        /\ IF a.ok
           THEN /\ notes' = ReplaceById(notes, a.id, a.data[1])
                /\ toast' = UpdateSuccess(a.origin, toast)
                /\ stackingNoteId' = StackingAfter(a.origin, TRUE, stackingNoteId)
                /\ lastOp' = Op("update.done", Null)
           ELSE /\ notes' = notes
                /\ toast' = Toast(UpdateError(a.origin), "error")
                /\ stackingNoteId' = StackingAfter(a.origin, FALSE, stackingNoteId)
                /\ lastOp' = Op("update.failed", Null)
        /\ UNCHANGED <<db, nextId, requests, timerVars, dragVars, filterVars,
                       canvasVars, probe, sessionVars>>
        /\ ResetEffect

(***************************************************************************)
(* App.tsx: position changes and the debounced position writer.            *)
(***************************************************************************)
Handles(ts) == {t.handle : t \in ts}

\* clearTimeout(h)
ClearTimeout(ts, h) == {t \in ts : t.handle # h}

\* a slip: the pending timer is not cleared
DebouncedNoClear(ts, held, i, x, y) ==
    LET h == CHOOSE k \in 1..(MaxTimers + 2) :
                 /\ k \notin Handles(ts) \cup {held}
                 /\ \A j \in 1..(k - 1) : j \in Handles(ts) \cup {held}
    IN  [timers |-> ts \cup {[handle |-> h, id |-> i, x |-> x, y |-> y]},
         timeout |-> h]

\* the function debounce returns: clearTimeout(timeout), then
\* timeout = setTimeout(() => func(...args), delay)
Debounced(ts, held, i, x, y) ==
    LET h == CHOOSE k \in 1..(MaxTimers + 2) :
                 /\ k \notin Handles(ts) \cup {held}
                 /\ \A j \in 1..(k - 1) : j \in Handles(ts) \cup {held}
    IN  [timers |-> ClearTimeout(ts, held)
                        \cup {[handle |-> h, id |-> i, x |-> x, y |-> y]},
         timeout |-> h]

\* a slip: the id is not tested and every note is moved
MoveNoteEvery(ns, i, x, y) ==
    MapNotes(ns, LAMBDA n : ApplyPatch(n, [canvas_x |-> x, canvas_y |-> y]))

\* setNotes(prev => prev.map(n => n.id === noteId ? {...n, canvas_x, canvas_y} : n))
MoveNote(ns, i, x, y) ==
    MapNotes(ns, LAMBDA n : IF n.id = i
                            THEN ApplyPatch(n, [canvas_x |-> x, canvas_y |-> y])
                            ELSE n)

\* handleNotePositionUpdate(noteId, x, y)
HandleNotePositionUpdate(i, x, y) ==
    LET d == Debounced(timers, timeout, i, x, y)
    IN  /\ Cardinality(d.timers) <= MaxTimers
        /\ notes' = MoveNote(notes, i, x, y)
        /\ timers' = d.timers
        /\ timeout' = d.timeout
        /\ burst' = [ids |-> (IF timers = {} THEN {} ELSE burst.ids) \cup {i},
                     changes |-> IF timers = {} THEN 1 ELSE 2]
        /\ pendingPos' = [pendingPos EXCEPT ![i] = <<x, y>>]

\* positions a drag can end at, in the specification of the note collection
DropPoints == {<<R(1), R(0)>>, <<R(2), R(1)>>}

NotePositionUpdate ==
    \E i \in IdsOf(notes), p \in DropPoints :
        /\ HandleNotePositionUpdate(i, p[1], p[2])
        /\ lastOp' = Op("handleNotePositionUpdate", Null)
        /\ UNCHANGED <<storeVars, stackingNoteId, toast, dragVars, viewVars,
                       canvasVars, probe, sessionVars>>

\* the timer callback: savePositionUpdate(noteId, x, y) up to its await
TimerFire ==
    \E t \in timers :
        /\ CanSend
        /\ timers' = timers \ {t}
        /\ Send("position", "position", t.id,
                [canvas_x |-> t.x, canvas_y |-> t.y], <<>>)
        /\ burst' = burst
        /\ pendingPos' = [pendingPos EXCEPT ![t.id] = <<NullNum, NullNum>>]
        /\ lastOp' = Op("savePositionUpdate", Null)
        /\ UNCHANGED <<notes, db, nextId, responses, stackingNoteId, toast,
                       timeout, dragVars, viewVars,
                       canvasVars, probe, sessionVars>>

\* savePositionUpdate after the await: an error is shown, nothing is reverted
SavePositionResume ==
    \E a \in responses :
        /\ a.kind = "position"
        /\ Resume(a)
        /\ toast' = IF a.ok THEN toast
                    ELSE Toast("Could not save note position", "error")
        /\ lastOp' = Op(IF a.ok THEN "savePositionUpdate.done"
                        ELSE "savePositionUpdate.failed", Null)
        /\ UNCHANGED <<notes, db, nextId, requests, stackingNoteId,
                       timerVars, dragVars, viewVars,
                       canvasVars, probe, sessionVars>>

(***************************************************************************)
(* CanvasNote: press, move and release of the pointer on a note.  The      *)
(* listeners registered at press time keep the props of that render, so    *)
(* note and scale are those of the press.                                  *)
(***************************************************************************)
DragThreshold == 5

\* a slip: the distance is taken on the canvas, after dividing by the zoom
ExceedsThresholdCanvas(pixelDx, pixelDy) ==
    \/ Abs(pixelDx) * scale[2] > DragThreshold * scale[1]
    \/ Abs(pixelDy) * scale[2] > DragThreshold * scale[1]

\* Math.abs(pixelDx) > 5 || Math.abs(pixelDy) > 5
ExceedsThreshold(pixelDx, pixelDy) ==
    Abs(pixelDx) > DragThreshold \/ Abs(pixelDy) > DragThreshold

\* a slip: the pointer distance is multiplied by the zoom
FinalPositionTimes(startNote, start, client, s) ==
    RAdd(startNote, RMul(R(client - start), s))

\* startNote + (client - start) / scale, on one axis
FinalPosition(startNote, start, client, s) ==
    RAdd(startNote, RDiv(R(client - start), s))

\* the effect-based CanvasNote: handleMouseUp decides at release, from the
\* note prop it was last rendered with
LegacyMouseUp(start, cx, cy, n, s) ==
    LET dx == cx - start[1]
        dy == cy - start[2]
    IN  IF Abs(dx) > 5 \/ Abs(dy) > 5
        THEN [kind |-> "commit",
              x |-> RAdd(OrZero(n.canvas_x), RDiv(R(dx), s)),
              y |-> RAdd(OrZero(n.canvas_y), RDiv(R(dy), s))]
        ELSE [kind |-> "view", x |-> NullNum, y |-> NullNum]

\* screen points the pointer visits
PointerXs == (0..MaxCoord) \cup {100}
PointerYs == {0, 5, 6, 50}
PressPoints == {<<0, 0>>, <<MaxCoord, 6>>}
\* zoom factors the canvas can be at: 0.2, 0.5, 1 and 2
CanvasScales == {Rat(1, 5), Rat(1, 2), R(1), R(2)}

\* largest screen distance on either axis, 6 standing for anything above 5
Reach(press, cx, cy) ==
    LET d == IF Abs(cx - press[1]) > Abs(cy - press[2])
             THEN Abs(cx - press[1]) ELSE Abs(cy - press[2])
    IN  IF d > DragThreshold THEN DragThreshold + 1 ELSE d

Max(a, b) == IF a > b THEN a ELSE b

\* drags in a run
MaxDrags == 1

\* handleMouseDown / handleTouchStart, then handleDragStart
Press ==
    \E i \in IdsOf(notes), p \in PressPoints :
        /\ ~ dragData.isDragging
        /\ gesture.drags < MaxDrags
        /\ dragNote' = i
        /\ dragData' = [isDragging |-> TRUE, startX |-> p[1], startY |-> p[2],
                        startNoteX |-> OrZero(Find(notes, i).canvas_x),
                        startNoteY |-> OrZero(Find(notes, i).canvas_y),
                        hasMoved |-> FALSE]
        /\ gesture' = [NoGesture EXCEPT
                          !.phase = "pressed", !.drags = gesture.drags + 1,
                          !.press = p,
                          !.startPos = <<OrZero(Find(notes, i).canvas_x),
                                         OrZero(Find(notes, i).canvas_y)>>]
        /\ lastOp' = Op("handleDragStart", Null)
        /\ UNCHANGED <<notes, storeVars, stackingNoteId, toast, viewingNote,
                       timerVars, scale, viewVars, canvasVars, probe, sessionVars>>

\* handleDragMove
Move ==
    \E cx \in PointerXs, cy \in PointerYs :
        /\ dragData.isDragging
        /\ dragData' = [dragData EXCEPT !.hasMoved =
               dragData.hasMoved
                   \/ ExceedsThreshold(cx - dragData.startX, cy - dragData.startY)]
        /\ gesture' = [gesture EXCEPT
               !.reach = Max(gesture.reach, Reach(gesture.press, cx, cy)),
               !.moveReach = Max(gesture.moveReach, Reach(gesture.press, cx, cy))]
        /\ lastOp' = Op("handleDragMove", Null)
        /\ UNCHANGED <<notes, storeVars, stackingNoteId, toast, viewingNote,
                       timerVars, dragNote, scale, viewVars, canvasVars,
                       probe, sessionVars>>

\* handleDragEnd
Release ==
    \E cx \in PointerXs, cy \in PointerYs :
        /\ dragData.isDragging
        /\ dragData' = [dragData EXCEPT !.isDragging = FALSE]
        /\ LET finalX == FinalPosition(dragData.startNoteX, dragData.startX, cx, scale)
               finalY == FinalPosition(dragData.startNoteY, dragData.startY, cy, scale)
               seen == [gesture EXCEPT
                          !.phase = "released", !.release = <<cx, cy>>,
                          !.reach = Max(gesture.reach, Reach(gesture.press, cx, cy)),
                          !.legacy = LegacyMouseUp(gesture.press, cx, cy,
                                                   Find(notes, dragNote), scale)]
           IN  IF dragData.hasMoved
               THEN /\ HandleNotePositionUpdate(dragNote, finalX, finalY)
                    /\ gesture' = [seen EXCEPT !.commits = gesture.commits + 1,
                                               !.committed = <<finalX, finalY>>]
                    /\ viewingNote' = viewingNote
                    /\ lastOp' = Op("handleDragEnd.commit", Null)
               ELSE /\ viewingNote' = dragNote
                    /\ gesture' = [seen EXCEPT !.views = gesture.views + 1]
                    /\ lastOp' = Op("handleDragEnd.view", Null)
                    /\ UNCHANGED <<notes, timerVars>>
        /\ UNCHANGED <<storeVars, stackingNoteId, toast, dragNote, scale,
                       viewVars, canvasVars, probe, sessionVars>>

(***************************************************************************)
(* App.tsx: the carousel.  The previous / next buttons are rendered while  *)
(* the carousel shows more than one slide.                                 *)
(***************************************************************************)
\* slides of the carousel sets the navigation functions are tried on
MaxSlides == 5
\* presses of next / previous in a run on such a set
MaxNavSteps == 6

\* the JavaScript remainder: the sign follows the dividend
JsRem(a, b) == IF a >= 0 THEN a % b ELSE 0 - ((0 - a) % b)

\* setActiveIndex((prev) => (prev + 1) % carouselNotes.length)
GoNextIndex(prev, n) == JsRem(prev + 1, n)

\* a slip: the length is not added before the remainder is taken
GoPrevIndexBare(prev, n) == JsRem(prev - 1, n)

\* setActiveIndex((prev) => (prev - 1 + carouselNotes.length) % carouselNotes.length)
GoPrevIndex(prev, n) == JsRem(prev - 1 + n, n)

Carousel == CarouselNotes(notes, searchTerm, activeTags)
CarouselShown ==
    /\ viewMode = "carousel"
    /\ Len(notes) > 0
    /\ Len(FilteredNotes(notes, searchTerm, activeTags)) > 0

\* the style of the slide at position k (from 1) of the carousel
SlideStyle(k, idx) ==
    LET slideOffset == (k - 1) - idx
    IN  [offset |-> slideOffset,
         opacity |-> IF Abs(slideOffset) <= 2 THEN 1 ELSE 0,
         zIndex |-> 100 - Abs(slideOffset),
         pointerEvents |-> IF slideOffset = 0 THEN "auto" ELSE "none"]

Slides == [k \in 1..Len(Carousel) |-> SlideStyle(k, activeIndex)]

handlerFrame == <<notes, storeVars, stackingNoteId, toast, timerVars, dragVars,
                  canvasVars, probe, sessionVars>>

goNext ==
    /\ CarouselShown /\ Len(Carousel) > 1
    /\ activeIndex' = GoNextIndex(activeIndex, Len(Carousel))
    /\ lastOp' = Op("goNext", Null)
    /\ UNCHANGED <<handlerFrame, filterVars>>

goPrev ==
    /\ CarouselShown /\ Len(Carousel) > 1
    /\ activeIndex' = GoPrevIndex(activeIndex, Len(Carousel))
    /\ lastOp' = Op("goPrev", Null)
    /\ UNCHANGED <<handlerFrame, filterVars>>

\* terms typed into the search box, and the tags the filter bar offers
SearchTerms == {"", "B"}
TagNames == {"x"}

\* handleNavigateToNote(id)
handleNavigateToNote ==
    \E i \in Ids :
        /\ IF viewMode = "canvas"
           THEN /\ toast' = Toast("Note navigation is available in Carousel view.",
                                  "success")
                /\ activeIndex' = activeIndex
           ELSE LET noteIndex == FindIndex(Carousel, i)
                IN  IF noteIndex # -1
                    THEN /\ activeIndex' = noteIndex
                         /\ toast' = toast
                    ELSE /\ toast' = Toast("Could not find the selected note.",
                                           "error")
                         /\ activeIndex' = activeIndex
        /\ lastOp' = Op("handleNavigateToNote", i)
        /\ UNCHANGED <<notes, storeVars, stackingNoteId, timerVars, dragVars,
                       canvasVars, probe, sessionVars, filterVars>>

\* what follows a change of the filters: the render, then the reset effect
FilterFrame(term, tags) ==
    /\ activeIndex' = ResetIndex(activeIndex, Carousel,
                                 CarouselNotes(notes, term, tags))
    /\ UNCHANGED <<handlerFrame, viewMode>>

\* the search box: onChange={(e) => setSearchTerm(e.target.value)}
SetSearchTerm ==
    \E term \in SearchTerms :
        /\ term # searchTerm
        /\ searchTerm' = term
        /\ activeTags' = activeTags
        /\ lastOp' = Op("setSearchTerm", Null)
        /\ FilterFrame(term, activeTags)

\* prev.includes(tag) ? prev.filter(t => t !== tag) : [...prev, tag]
ToggleTag(tags, tag) ==
    IF \E k \in 1..Len(tags) : tags[k] = tag
    THEN SelectSeq(tags, LAMBDA t : t # tag)
    ELSE Append(tags, tag)

toggleTagFilter ==
    \E tag \in TagNames :
        /\ activeTags' = ToggleTag(activeTags, tag)
        /\ searchTerm' = searchTerm
        /\ lastOp' = Op("toggleTagFilter", Null)
        /\ FilterFrame(searchTerm, activeTags')

\* a tag of a note card is clicked
handleTagClick ==
    \E tag \in TagNames :
        /\ activeTags' = IF \E k \in 1..Len(activeTags) : activeTags[k] = tag
                         THEN activeTags ELSE Append(activeTags, tag)
        /\ searchTerm' = ""
        /\ lastOp' = Op("handleTagClick", Null)
        /\ FilterFrame("", activeTags')

\* the carousel: one stored note with a tag, and room to create another
CarouselRows ==
    {[id |-> 1, text |-> "a", stack_id |-> Null, is_pinned |-> FALSE,
      canvas_x |-> NullNum, canvas_y |-> NullNum, tags |-> <<"x">>]}
CarouselLoaded ==
    <<[id |-> 1, text |-> "a", stack_id |-> Null, is_pinned |-> FALSE,
       canvas_x |-> NullNum, canvas_y |-> NullNum, tags |-> <<"x">>]>>

InitCarousel == InitWith(CarouselRows, CarouselLoaded, R(1))

NextCarousel ==
    \/ goNext \/ goPrev \/ handleNavigateToNote
    \/ SetSearchTerm \/ toggleTagFilter \/ handleTagClick
    \/ SaveNewNote \/ SaveNewNoteResume
    \/ DeleteNote \/ DeleteNoteResume
    \/ TogglePin \/ UnstackNote
    \/ StartStack \/ FinishStack
    \/ UpdateResume
    \/ StoreUpdate \/ StoreInsert \/ StoreDelete \/ StoreRefuse

SpecCarousel == InitCarousel /\ [][NextCarousel]_vars

\* the navigation functions on a carousel set of n slides, from any start
InitNav ==
    /\ InitApp({}, <<>>, R(1))
    /\ \E n \in 1..MaxSlides, i \in 0..(MaxSlides - 1) :
           /\ i < n
           /\ probe = [fn |-> "nav", n |-> n, start |-> i, idx |-> i,
                       nexts |-> 0, prevs |-> 0, last |-> "none", from |-> i]

ProbeNext ==
    /\ probe.fn = "nav"
    /\ probe.nexts + probe.prevs < MaxNavSteps
    /\ probe' = [probe EXCEPT !.idx = GoNextIndex(probe.idx, probe.n),
                              !.nexts = probe.nexts + 1,
                              !.last = "next", !.from = probe.idx]
    /\ UNCHANGED appVars

ProbePrev ==
    /\ probe.fn = "nav"
    /\ probe.nexts + probe.prevs < MaxNavSteps
    /\ probe' = [probe EXCEPT !.idx = GoPrevIndex(probe.idx, probe.n),
                              !.prevs = probe.prevs + 1,
                              !.last = "prev", !.from = probe.idx]
    /\ UNCHANGED appVars

NextNav == ProbeNext \/ ProbePrev

SpecNav == InitNav /\ [][NextNav]_vars

(***************************************************************************)
(* filteredNotes on its own: any collection of up to MaxFiltered notes,    *)
(* any search term and any set of active tags of the sets below.           *)
(***************************************************************************)
MaxFiltered == 3

\* notes of the shapes the type allows: summary null or a string, tags and
\* is_pinned present or absent
NoteShapes ==
    {[text |-> "ab", stack_id |-> Null],
     [text |-> "B", stack_id |-> Null, summary |-> "", tags |-> <<>>,
      is_pinned |-> FALSE],
     [text |-> "c", stack_id |-> Null, summary |-> "Ab", tags |-> <<"x">>,
      is_pinned |-> TRUE],
     [text |-> "c", stack_id |-> Null, tags |-> <<"x", "By">>,
      is_pinned |-> TRUE],
     [text |-> "A", stack_id |-> Null, tags |-> <<"y">>, is_pinned |-> FALSE]}

WithId(shape, i) ==
    [f \in DOMAIN shape \cup {"id"} |-> IF f = "id" THEN i ELSE shape[f]]

ProbeTerms == {"", "a", "B", "by"}
ProbeTags == {<<>>, <<"x">>, <<"y", "x">>, <<"By">>}

InitFilter ==
    /\ InitApp({}, <<>>, R(1))
    /\ \E len \in 0..MaxFiltered :
           \E shapes \in [1..len -> NoteShapes] :
               \E term \in ProbeTerms, tags \in ProbeTags :
                   probe = [fn |-> "filter",
                            ns |-> [k \in 1..len |-> WithId(shapes[k], k)],
                            term |-> term, tags |-> tags,
                            done |-> FALSE, out |-> <<>>]

ApplyFilter ==
    /\ probe.fn = "filter"
    /\ ~ probe.done
    /\ probe' = [probe EXCEPT !.done = TRUE,
                              !.out = FilteredNotes(probe.ns, probe.term, probe.tags)]
    /\ UNCHANGED appVars

NextFilter == ApplyFilter

SpecFilter == InitFilter /\ [][NextFilter]_vars

(***************************************************************************)
(* App.tsx: handleTidyCanvas, the grid it lays the filtered notes on.      *)
(***************************************************************************)
NOTE_WIDTH == 280
NOTE_HEIGHT == 180
GAP_X == 40
GAP_Y == 40

\* notes laid out in one run
MaxTidy == 5
\* window.innerWidth
WindowWidths == {0, 320, 336, 337, 673, 674, 1024, 1366}

\* Math.floor of a rational that is not negative
Floor(r) == r[1] \div r[2]

\* window.innerWidth * 0.95
ContainerWidth(innerWidth) == RMul(R(innerWidth), Rat(95, 100))

\* Math.max(1, Math.floor(containerWidth / (NOTE_WIDTH + GAP_X)))
TidyColumns(innerWidth) ==
    Max(1, Floor(RDiv(ContainerWidth(innerWidth), R(NOTE_WIDTH + GAP_X))))

\* a slip: row and column are swapped
TidyCellSwapped(index, columns) ==
    LET row == index % columns
        col == index \div columns
    IN  [row |-> row, col |-> col,
         canvas_x |-> col * (NOTE_WIDTH + GAP_X) + GAP_X,
         canvas_y |-> row * (NOTE_HEIGHT + GAP_Y) + GAP_Y]

\* the callback of notesToTidy.map, index counted from 0
TidyCell(index, columns) ==
    LET row == index \div columns
        col == index % columns
    IN  [row |-> row, col |-> col,
         canvas_x |-> col * (NOTE_WIDTH + GAP_X) + GAP_X,
         canvas_y |-> row * (NOTE_HEIGHT + GAP_Y) + GAP_Y]

\* the updates of one run over k notes; none when there is no note to tidy
TidyUpdates(k, innerWidth) ==
    [i \in 1..k |-> TidyCell(i - 1, TidyColumns(innerWidth))]

InitTidy ==
    /\ InitApp({}, <<>>, R(1))
    /\ \E k \in 0..MaxTidy, w \in WindowWidths :
           probe = [fn |-> "tidy", k |-> k, w |-> w, runs |-> 0,
                    columns |-> 0, first |-> <<>>, second |-> <<>>]

TidyOnce ==
    /\ probe.fn = "tidy"
    /\ probe.runs = 0
    /\ probe' = [probe EXCEPT !.runs = 1,
                              !.columns = TidyColumns(probe.w),
                              !.first = TidyUpdates(probe.k, probe.w)]
    /\ UNCHANGED appVars

TidyAgain ==
    /\ probe.fn = "tidy"
    /\ probe.runs = 1
    /\ probe' = [probe EXCEPT !.runs = 2,
                              !.second = TidyUpdates(probe.k, probe.w)]
    /\ UNCHANGED appVars

NextTidy == TidyOnce \/ TidyAgain

SpecTidy == InitTidy /\ [][NextTidy]_vars

(***************************************************************************)
(* InfiniteCanvas: pan, wheel zoom, pinch zoom, the zoom buttons and the   *)
(* view reset.  A handler sees the transform of the last render.           *)
(***************************************************************************)
MIN_SCALE == Rat(1, 5)
MAX_SCALE == R(2)

\* handler calls in a run that change the transform
MaxCanvasSteps == 3

RLe(a, b) == a[1] * b[2] <= b[1] * a[2]
RMin(a, b) == IF RLe(a, b) THEN a ELSE b
RMax(a, b) == IF RLe(a, b) THEN b ELSE a

\* Math.sqrt, on the squares the touch lists below give
Sqrt(n) == CHOOSE r \in 0..n : r * r = n

\* getDistance(touches)
GetDistance(touches) ==
    Sqrt((touches[2][1] - touches[1][1]) * (touches[2][1] - touches[1][1])
         + (touches[2][2] - touches[1][2]) * (touches[2][2] - touches[1][2]))

\* getMidpoint(touches)
GetMidpoint(touches) ==
    <<Rat(touches[1][1] + touches[2][1], 2), Rat(touches[1][2] + touches[2][2], 2)>>

\* a slip: the upper limit is not applied
ClampScaleBelow(v) == RMax(v, MIN_SCALE)

\* Math.min(Math.max(v, MIN_SCALE), MAX_SCALE)
ClampScale(v) == RMin(RMax(v, MIN_SCALE), MAX_SCALE)

\* a slip: the offset is scaled about the origin, not about the anchor
AnchorShiftOrigin(x, mouse, old, new) == RMul(x, RDiv(new, old))

\* transform.x + (mouseX - transform.x) * (1 - newScale / transform.scale)
AnchorShift(x, mouse, old, new) ==
    RAdd(x, RMul(RSub(mouse, x), RSub(R(1), RDiv(new, old))))

\* pointer positions on the canvas background, relative to the canvas
CanvasPoints == {<<0, 0>>, <<40, 20>>}
\* e.deltaY of a wheel event
WheelDeltas == {-400, 100}
\* e.touches with one finger and with two
OneTouch == {<<p>> : p \in CanvasPoints}
TwoTouches == {<<<<0, 0>>, <<3, 4>>>>, <<<<0, 0>>, <<30, 40>>>>,
               <<<<40, 20>>, <<40, 20>>>>}

CanStep == zoomed.steps < MaxCanvasSteps
canvasFrame == <<notes, storeVars, stackingNoteId, toast, timerVars, dragData,
                 dragNote, gesture, viewingNote, viewVars, probe, sessionVars>>
Before == [x |-> offset[1], y |-> offset[2], scale |-> scale]

\* setTransform({ x: newX, y: newY, scale: newScale }) about the anchor
ZoomAt(kind, mouse, newScale) ==
    /\ offset' = <<AnchorShift(offset[1], mouse[1], scale, newScale),
                   AnchorShift(offset[2], mouse[2], scale, newScale)>>
    /\ scale' = newScale
    /\ zoomed' = [steps |-> zoomed.steps + 1, kind |-> kind, anchor |-> mouse,
                  used |-> newScale, before |-> Before]

StartPan(p) ==
    panning' = [isPanning |-> TRUE, x |-> RSub(R(p[1]), offset[1]),
                y |-> RSub(R(p[2]), offset[2])]

Pan(p) ==
    /\ offset' = <<RSub(R(p[1]), panning.x), RSub(R(p[2]), panning.y)>>
    /\ zoomed' = [zoomed EXCEPT !.steps = zoomed.steps + 1, !.kind = "pan"]

\* handleMouseDown on the canvas background
CanvasMouseDown ==
    \E p \in CanvasPoints :
        /\ StartPan(p)
        /\ lastOp' = Op("canvas.handleMouseDown", Null)
        /\ UNCHANGED <<canvasFrame, offset, scale, pinchStartDistance, zoomed>>

\* handleMouseMove
CanvasMouseMove ==
    \E p \in CanvasPoints :
        /\ panning.isPanning
        /\ CanStep
        /\ Pan(p)
        /\ lastOp' = Op("canvas.handleMouseMove", Null)
        /\ UNCHANGED <<canvasFrame, scale, panning, pinchStartDistance>>

\* handleMouseUp, also on mouse leave
CanvasMouseUp ==
    /\ panning.isPanning
    /\ panning' = [panning EXCEPT !.isPanning = FALSE]
    /\ lastOp' = Op("canvas.handleMouseUp", Null)
    /\ UNCHANGED <<canvasFrame, offset, scale, pinchStartDistance, zoomed>>

\* handleWheel
CanvasWheel ==
    \E deltaY \in WheelDeltas, mouse \in CanvasPoints :
        LET delta == RMul(R(deltaY), Rat(-5, 1000))
            newScale == ClampScale(RAdd(scale, delta))
        IN  /\ CanStep
            /\ ZoomAt("wheel", <<R(mouse[1]), R(mouse[2])>>, newScale)
            /\ lastOp' = Op("canvas.handleWheel", Null)
            /\ UNCHANGED <<canvasFrame, panning, pinchStartDistance>>

\* handleTouchStart on the canvas background
CanvasTouchStart ==
    \E touches \in OneTouch \cup TwoTouches :
        /\ IF Len(touches) = 1
           THEN /\ StartPan(touches[1])
                /\ pinchStartDistance' = pinchStartDistance
           ELSE /\ panning' = [panning EXCEPT !.isPanning = FALSE]
                /\ pinchStartDistance' = GetDistance(touches)
        /\ lastOp' = Op("canvas.handleTouchStart", Len(touches))
        /\ UNCHANGED <<canvasFrame, offset, scale, zoomed>>

\* handleTouchMove
CanvasTouchMove ==
    \E touches \in OneTouch \cup TwoTouches :
        /\ CanStep
        /\ IF Len(touches) = 1
           THEN /\ panning.isPanning
                /\ Pan(touches[1])
                /\ UNCHANGED <<scale, pinchStartDistance>>
           ELSE /\ pinchStartDistance > 0
                /\ LET newDistance == GetDistance(touches)
                       scaleFactor == Rat(newDistance, pinchStartDistance)
                       newScale == ClampScale(RMul(scale, scaleFactor))
                   IN  /\ ZoomAt("pinch", GetMidpoint(touches), newScale)
                       /\ pinchStartDistance' = newDistance
        /\ lastOp' = Op("canvas.handleTouchMove", Null)
        /\ UNCHANGED <<canvasFrame, panning>>

\* a slip: the baseline of the pinch outlives the release
PinchAfterReleaseKept(distance) == distance

\* pinchStartDistance.current = 0
PinchAfterRelease(distance) == 0

\* handleTouchEnd
CanvasTouchEnd ==
    /\ panning.isPanning \/ pinchStartDistance # 0
    /\ panning' = [panning EXCEPT !.isPanning = FALSE]
    /\ pinchStartDistance' = PinchAfterRelease(pinchStartDistance)
    /\ lastOp' = Op("canvas.handleTouchEnd", Null)
    /\ UNCHANGED <<canvasFrame, offset, scale, zoomed>>

\* handleZoom(direction), zoomFactor 1.2
CanvasZoom ==
    \E direction \in {"in", "out"} :
        /\ CanStep
        /\ scale' = IF direction = "in"
                    THEN RMin(RMul(scale, Rat(12, 10)), MAX_SCALE)
                    ELSE RMax(RDiv(scale, Rat(12, 10)), MIN_SCALE)
        /\ zoomed' = [zoomed EXCEPT !.steps = zoomed.steps + 1, !.kind = "button"]
        /\ lastOp' = Op("canvas.handleZoom", Null)
        /\ UNCHANGED <<canvasFrame, offset, panning, pinchStartDistance>>

\* resetView
CanvasResetView ==
    /\ zoomed.kind # "reset"
    /\ offset' = <<R(0), R(0)>>
    /\ scale' = R(1)
    /\ zoomed' = [zoomed EXCEPT !.kind = "reset"]
    /\ lastOp' = Op("canvas.resetView", Null)
    /\ UNCHANGED <<canvasFrame, panning, pinchStartDistance>>

InitCanvas == InitWith(LoadedRows, LoadedNotes, R(1))

NextCanvas ==
    \/ CanvasMouseDown \/ CanvasMouseMove \/ CanvasMouseUp
    \/ CanvasWheel
    \/ CanvasTouchStart \/ CanvasTouchMove \/ CanvasTouchEnd
    \/ CanvasZoom \/ CanvasResetView

SpecCanvas == InitCanvas /\ [][NextCanvas]_vars

(***************************************************************************)
(* App.tsx: the tidy action of the canvas, handleTidyCanvas and            *)
(* handleUpdateNotePositions.  The upsert is the store's batched           *)
(* insert-or-update (section 6 of the specification).                      *)
(***************************************************************************)
\* notesToTidy.map((note, index) => ({ id, user_id, canvas_x, canvas_y }))
TidyEntries(notesToTidy, innerWidth) ==
    [k \in 1..Len(notesToTidy) |->
        LET cell == TidyCell(k - 1, TidyColumns(innerWidth))
        IN  [id |-> notesToTidy[k].id,
             canvas_x |-> R(cell.canvas_x), canvas_y |-> R(cell.canvas_y)]]

\* updates.find(u => u.id === n.id): whether there is one, and the first
HasUpdate(updates, i) == \E k \in 1..Len(updates) : updates[k].id = i
FindUpdate(updates, i) ==
    updates[CHOOSE k \in 1..Len(updates) :
               /\ updates[k].id = i
               /\ \A j \in 1..(k - 1) : updates[j].id # i]

\* a slip: only the first update reaches the local collection
ApplyUpdatesFirstOnly(ns, updates) ==
    MapNotes(ns, LAMBDA n :
        IF Len(updates) > 0 /\ updates[1].id = n.id
        THEN ApplyPatch(n, [canvas_x |-> updates[1].canvas_x,
                            canvas_y |-> updates[1].canvas_y])
        ELSE n)

\* setNotes(prev => prev.map(n => update ? {...n, canvas_x, canvas_y} : n))
ApplyUpdates(ns, updates) ==
    MapNotes(ns, LAMBDA n :
        IF HasUpdate(updates, n.id)
        THEN LET update == FindUpdate(updates, n.id)
             IN  ApplyPatch(n, [canvas_x |-> update.canvas_x,
                                canvas_y |-> update.canvas_y])
        ELSE n)

\* handleTidyCanvas, and handleUpdateNotePositions up to its await
handleTidyCanvas ==
    \E innerWidth \in WindowWidths :
        LET notesToTidy == FilteredNotes(notes, searchTerm, activeTags)
            updates == TidyEntries(notesToTidy, innerWidth)
        IN  /\ IF Len(notesToTidy) = 0
               THEN /\ toast' = Toast("No notes on canvas to tidy.", "error")
                    /\ lastOp' = Op("handleTidyCanvas.return", Null)
                    /\ UNCHANGED <<notes, requests>>
               ELSE /\ CanSend
                    /\ notes' = ApplyUpdates(notes, updates)
                    /\ Send("upsert", "tidy", Null, [updates |-> updates], <<>>)
                    /\ toast' = toast
                    /\ lastOp' = Op("handleTidyCanvas", Null)
            /\ UNCHANGED <<db, nextId, responses, stackingNoteId,
                           timerVars, dragVars, viewVars,
                           canvasVars, probe, sessionVars>>

\* handleUpdateNotePositions after its await: one message, no rollback
UpdateNotePositionsResume ==
    \E a \in responses :
        /\ a.kind = "upsert"
        /\ Resume(a)
        /\ toast' = IF a.ok
                    THEN Toast("Canvas tidied!", "success")
                    ELSE Toast("Could not save tidy layout", "error")
        /\ lastOp' = Op(IF a.ok THEN "handleUpdateNotePositions.done"
                        ELSE "handleUpdateNotePositions.failed", Null)
        /\ UNCHANGED <<notes, db, nextId, requests, stackingNoteId,
                       timerVars, dragVars, viewVars,
                       canvasVars, probe, sessionVars>>

\* upsert(updates): a row with the id takes the entry's fields, an entry
\* without a row becomes a row
StoreUpsert ==
    \E q \in requests :
        /\ q.kind = "upsert"
        /\ db' = {IF HasUpdate(q.patch.updates, r.id)
                  THEN ApplyPatch(r, FindUpdate(q.patch.updates, r.id))
                  ELSE r : r \in db}
                 \cup {q.patch.updates[k] : k \in {j \in 1..Len(q.patch.updates) :
                                     \A r \in db : r.id # q.patch.updates[j].id}}
        /\ Answer(q, TRUE, <<>>)
        /\ UNCHANGED <<nextId, clientVars>>

\* two stored notes shown on the canvas
InitTidyCanvas == InitWith(LoadedRows, LoadedNotes, R(1))

NextTidyCanvas ==
    \/ handleTidyCanvas \/ UpdateNotePositionsResume
    \/ SetSearchTerm
    \/ TogglePin \/ UpdateResume
    \/ StoreUpsert \/ StoreUpdate \/ StoreRefuse

SpecTidyCanvas == InitTidyCanvas /\ [][NextTidyCanvas]_vars

(***************************************************************************)
(* App.tsx: handleImport.  The file is read by a FileReader, whose onload  *)
(* callback runs later: the read is kept with the store calls under way,   *)
(* with the file's parsed content and the notes of the render that called  *)
(* handleImport.  A record of the file may lack any field.                 *)
(***************************************************************************)
\* records of one file
MaxFile == 2

\* what JSON.parse can give: a value that is no array, or an array of records
NotAnArray == [isArray |-> FALSE, items |-> <<>>]
ArrayOf(items) == [isArray |-> TRUE, items |-> items]

\* records a backup can hold for an id the store has handed out: all fields,
\* the bare minimum, no text, and no id
ImportRecords(i) ==
    {[id |-> i, text |-> "b", stack_id |-> Null, is_pinned |-> TRUE,
      tags |-> <<"x">>, canvas_x |-> R(3), canvas_y |-> NullNum],
     [id |-> i, text |-> "a", stack_id |-> Null],
     [id |-> i, stack_id |-> Null],
     [text |-> "a", stack_id |-> Null]}

ImportFiles ==
    LET recs == UNION {ImportRecords(i) : i \in 1..(nextId - 1)}
    IN  {NotAnArray}
        \cup {ArrayOf(<<>>)}
        \cup {ArrayOf(<<r>>) : r \in recs}
        \cup (IF MaxFile >= 2
              THEN {ArrayOf(<<r1, r2>>) : r1 \in recs, r2 \in recs}
              ELSE {})

\* n.id && typeof n.text !== 'undefined'
ValidImport(n) ==
    /\ "id" \in DOMAIN n /\ n.id # Null
    /\ "text" \in DOMAIN n

\* v || fallback for a field that may be absent; null, 0 and false are falsy
OrElse(n, f, falsy, fallback) ==
    IF f \in DOMAIN n /\ n[f] \notin falsy THEN n[f] ELSE fallback

\* a slip: an imported note keeps no position
WithDefaultsAtOrigin(n) ==
    [f \in DOMAIN n \cup {"is_pinned", "tags", "canvas_x", "canvas_y"} |->
        CASE f = "is_pinned" -> OrElse(n, f, {FALSE}, FALSE)
          [] f = "tags" -> OrElse(n, f, {}, <<>>)
          [] f = "canvas_x" -> R(0)
          [] f = "canvas_y" -> R(0)
          [] OTHER -> n[f]]

\* {...n, is_pinned: n.is_pinned || false, tags: n.tags || [],
\*  canvas_x: n.canvas_x || 0, canvas_y: n.canvas_y || 0}
WithDefaults(n) ==
    [f \in DOMAIN n \cup {"is_pinned", "tags", "canvas_x", "canvas_y"} |->
        CASE f = "is_pinned" -> OrElse(n, f, {FALSE}, FALSE)
          [] f = "tags" -> OrElse(n, f, {}, <<>>)
          [] f = "canvas_x" -> OrElse(n, f, {NullNum, R(0)}, R(0))
          [] f = "canvas_y" -> OrElse(n, f, {NullNum, R(0)}, R(0))
          [] OTHER -> n[f]]

\* validNotes, newNotes and uniqueNewNotes of the onload callback
UniqueNewNotes(items, closureNotes) ==
    LET validNotes == SelectSeq(items, ValidImport)
        newNotes == [k \in 1..Len(validNotes) |-> WithDefaults(validNotes[k])]
        existingIds == IdsOf(closureNotes)
    IN  SelectSeq(newNotes, LAMBDA n : n.id \notin existingIds)

\* handleImport up to reader.readAsText(file), for a file with this content
ReadFile(file) ==
    /\ session
    /\ CanSend
    /\ Send("read", "import", Null, file, notes)
    /\ lastOp' = Op("handleImport", Null)
    /\ UNCHANGED <<notes, db, nextId, responses, stackingNoteId, toast,
                   timerVars, dragVars, viewVars,
                   canvasVars, probe, sessionVars>>

handleImport == \E file \in ImportFiles : ReadFile(file)

\* reader.onload up to the await of the batched insert
ImportLoaded ==
    \E q \in requests :
        /\ q.kind = "read"
        /\ LET unique == UniqueNewNotes(q.patch.items, q.orig)
           IN  IF ~ q.patch.isArray
               THEN /\ requests' = requests \ {q}
                    /\ toast' = Toast("Import failed", "error")
                    /\ lastOp' = Op("handleImport.failed", Null)
               ELSE IF Len(unique) = 0
               THEN /\ requests' = requests \ {q}
                    /\ toast' = Toast("No new notes to import.", "success")
                    /\ lastOp' = Op("handleImport.none", Null)
               ELSE /\ requests' = (requests \ {q})
                        \cup {Req(q.rid, "import", "import", Null,
                                 [items |-> unique], <<>>)}
                    /\ toast' = toast
                    /\ lastOp' = Op("handleImport.insert", Null)
        /\ UNCHANGED <<notes, db, nextId, responses, stackingNoteId,
                       timerVars, dragVars, viewVars,
                       canvasVars, probe, sessionVars>>

\* reader.onload after the await
ImportResume ==
    \E a \in responses :
        /\ a.kind = "import"
        /\ Resume(a)
        /\ IF a.ok
           THEN /\ notes' = a.patch.items \o notes
                /\ toast' = Toast("notes imported successfully!", "success")
                /\ lastOp' = Op("handleImport.done", Null)
           ELSE /\ notes' = notes
                /\ toast' = Toast("Import failed", "error")
                /\ lastOp' = Op("handleImport.failed", Null)
        /\ UNCHANGED <<db, nextId, requests, stackingNoteId, timerVars,
                       dragVars, filterVars, canvasVars, probe, sessionVars>>
        /\ ResetEffect

\* insert(records): all rows or none; an id is held by one row only
StoreInsertMany ==
    \E q \in requests :
        /\ q.kind = "import"
        /\ LET ids == {q.patch.items[k].id : k \in 1..Len(q.patch.items)}
           IN  IF /\ Cardinality(ids) = Len(q.patch.items)
                  /\ \A r \in db : r.id \notin ids
               THEN /\ db' = db \cup {q.patch.items[k] : k \in 1..Len(q.patch.items)}
                    /\ Answer(q, TRUE, <<>>)
               ELSE /\ db' = db
                    /\ Answer(q, FALSE, <<>>)
        /\ UNCHANGED <<nextId, clientVars>>

\* two stored notes; a deleted note can come back from a backup
InitImport == InitWith(LoadedRows, LoadedNotes, R(1))

NextImport ==
    \/ handleImport \/ ImportLoaded \/ ImportResume
    \/ DeleteNote \/ DeleteNoteResume
    \/ StoreInsertMany \/ StoreDelete \/ StoreRefuse

SpecImport == InitImport /\ [][NextImport]_vars

(***************************************************************************)
(* App.tsx: the session and the fetchUserData effect.  The effect runs     *)
(* with the render that follows a change of the session; the profile it    *)
(* reads first is left out.                                                *)
(***************************************************************************)
\* order('created_at', { ascending: false }): the store hands out ids in
\* the order of creation
RECURSIVE NewestFirst(_)
NewestFirst(rows) ==
    IF rows = {} THEN <<>>
    ELSE LET r == CHOOSE n \in rows : \A o \in rows : o.id <= n.id
         IN  <<r>> \o NewestFirst(rows \ {r})

\* onAuthStateChange with a session, and fetchUserData up to the await of
\* the notes
SignIn ==
    /\ ~ session
    /\ CanSend
    /\ session' = TRUE
    /\ Send("fetch", "fetchUserData", Null, NoPatch, <<>>)
    /\ lastOp' = Op("signIn", Null)
    /\ UNCHANGED <<notes, db, nextId, responses, stackingNoteId, toast,
                   timerVars, dragVars, viewVars, canvasVars, probe,
                   inFlightCap>>

\* onAuthStateChange without a session, and the else branch of fetchUserData
SignOut ==
    /\ session
    /\ session' = FALSE
    /\ notes' = <<>>
    /\ lastOp' = Op("signOut", Null)
    /\ UNCHANGED <<storeVars, stackingNoteId, toast, timerVars, dragVars,
                   filterVars, canvasVars, probe, inFlightCap>>
    /\ ResetEffect

\* fetchUserData after the await of the notes
FetchResume ==
    \E a \in responses :
        /\ a.kind = "fetch"
        /\ Resume(a)
        /\ IF a.ok
           THEN /\ notes' = a.data
                /\ toast' = toast
                /\ lastOp' = Op("fetchUserData.done", Null)
           ELSE /\ notes' = notes
                /\ toast' = Toast("Could not fetch your notes.", "error")
                /\ lastOp' = Op("fetchUserData.failed", Null)
        /\ UNCHANGED <<db, nextId, requests, stackingNoteId, timerVars,
                       dragVars, filterVars, canvasVars, probe, sessionVars>>
        /\ ResetEffect

\* select('*').order('created_at', { ascending: false })
StoreFetch ==
    \E q \in requests :
        /\ q.kind = "fetch"
        /\ Answer(q, TRUE, NewestFirst(db))
        /\ UNCHANGED <<db, nextId, clientVars>>

\* the state after construction: no session, no note; the store holds a row
InitSession ==
    /\ InitClient({LoadedNotes[2]}, <<>>, R(1))
    /\ probe = NoProbe
    /\ session = FALSE
    /\ inFlightCap = MaxInFlight

NextSession ==
    \/ SignIn \/ SignOut \/ FetchResume
    \/ SaveNewNote \/ SaveNewNoteResume
    \/ DeleteNote \/ DeleteNoteResume
    \/ StoreFetch \/ StoreInsert \/ StoreDelete \/ StoreRefuse

SpecSession == InitSession /\ [][NextSession]_vars

(***************************************************************************)
(* App.tsx and NoteCard.tsx: stacking as the carousel offers it.  Only the *)
(* active slide takes pointer input; its stack button is disabled while a  *)
(* stacking gesture is under way, and its "Stack Here" overlay is shown    *)
(* while one is under way and the slide is not the source.                 *)
(***************************************************************************)
ActiveSlideShown == CarouselShown /\ activeIndex < Len(Carousel)
ActiveSlide == Carousel[activeIndex + 1]

\* NoteCard: onClick={() => onStartStack(note.id)} disabled={isStacking}
StartStackOnSlide ==
    /\ ActiveSlideShown
    /\ stackingNoteId = Null
    /\ handleStartStack(ActiveSlide.id)

\* NoteCard: isThisNoteStackingTarget, onClick={() => onFinishStack(note.id)}
FinishStackOnSlide ==
    /\ ActiveSlideShown
    /\ stackingNoteId # Null
    /\ stackingNoteId # ActiveSlide.id
    /\ handleFinishStack(ActiveSlide.id)

\* three stored notes, none stacked
StackRows == {Note(i, "a", Null, FALSE, NullNum, NullNum) : i \in 1..(MaxId + 1)}
InitStack == InitWith(StackRows, NewestFirst(StackRows), R(1))

NextStack ==
    \/ StartStackOnSlide \/ FinishStackOnSlide \/ CancelStack
    \/ goNext \/ goPrev
    \/ UpdateResume
    \/ StoreUpdate \/ StoreRefuse

SpecStack == InitStack /\ [][NextStack]_vars

(***************************************************************************)
(* Store calls that overlap: deletes and imports may be under way together *)
(* with each other.                                                        *)
(***************************************************************************)
\* store calls that may be outstanding together where calls overlap
MaxOverlap == 2
\* an import starts while the collection, and every snapshot a call under
\* way holds, has no more notes than this
MaxLocal == 2

\* backups of the newest stored note as handleExport writes it, and a file
\* that holds the note twice
BackupFiles ==
    {ArrayOf(<<LoadedNotes[1]>>), ArrayOf(<<LoadedNotes[1], LoadedNotes[1]>>)}

\* handleImport of a backup
ImportBackup ==
    /\ Len(notes) <= MaxLocal
    /\ \A q \in requests \cup responses : Len(q.orig) <= MaxLocal
    /\ \E file \in BackupFiles : ReadFile(file)

\* two stored notes, after sign-in and the first fetch
InitOverlap ==
    /\ InitClient(LoadedRows, LoadedNotes, R(1))
    /\ probe = NoProbe
    /\ session = TRUE
    /\ inFlightCap = MaxOverlap

NextOverlap ==
    \/ DeleteNote \/ DeleteNoteResume
    \/ ImportBackup \/ ImportLoaded \/ ImportResume
    \/ StoreDelete \/ StoreInsertMany \/ StoreRefuse

SpecOverlap == InitOverlap /\ [][NextOverlap]_vars

\* deletes and pin toggles under way together
NextEcho ==
    \/ DeleteNote \/ DeleteNoteResume
    \/ TogglePin \/ UpdateResume
    \/ StoreDelete \/ StoreUpdate \/ StoreUpdateNoRow \/ StoreRefuse

SpecEcho == InitOverlap /\ [][NextEcho]_vars

(***************************************************************************)
(* Specifications.                                                         *)
(***************************************************************************)
\* the note collection, the store and the stacking state machine
Next ==
    \/ SaveNewNote \/ SaveNewNoteResume
    \/ SaveEditedNote \/ AiUpdateNote
    \/ DeleteNote \/ DeleteNoteResume
    \/ DeleteAllNotes \/ DeleteAllNotesResume
    \/ TogglePin \/ UnstackNote \/ TextUpdate
    \/ StartStack \/ CancelStack \/ FinishStack
    \/ UpdateResume
    \/ StoreUpdate \/ StoreUpdateNoRow \/ StoreInsert \/ StoreDelete
    \/ StoreDeleteAll \/ StoreRefuse

Spec == Init /\ [][Next]_vars

\* two stored notes, the older one without a position
InitPos == InitWith(LoadedRows, LoadedNotes, R(1))

\* the debounced position writer next to pin toggles
NextPos ==
    \/ NotePositionUpdate \/ TimerFire \/ SavePositionResume
    \/ TogglePin \/ UpdateResume
    \/ StoreUpdate \/ StorePosition \/ StoreRefuse

SpecPos == InitPos /\ [][NextPos]_vars

\* the same with a store that refuses no call: every write succeeds
NextSettled ==
    \/ NotePositionUpdate \/ TimerFire \/ SavePositionResume
    \/ TogglePin \/ UpdateResume
    \/ StoreUpdate \/ StorePosition

SpecSettled == InitPos /\ [][NextSettled]_vars

\* two stored notes, the older one without a position, at any zoom
InitDrag ==
    \E s \in CanvasScales : InitWith(LoadedRows, LoadedNotes, s)

NextDrag ==
    \/ Press \/ Move \/ Release
    \/ TimerFire \/ SavePositionResume
    \/ StorePosition \/ StoreRefuse

SpecDrag == InitDrag /\ [][NextDrag]_vars

(***************************************************************************)
(* Properties.                                                             *)
(***************************************************************************)
NoPos == <<NullNum, NullNum>>
Resumed(a) == a \in responses /\ a \notin responses'
Sent(q) == q \in requests' /\ q \notin requests

\* C1: position writes are debounced per note: a change of another note does
\* not cancel a note's pending write, so every note whose last position is
\* not yet dispatched has a pending timer that carries that position.
C1_PerNoteDebounce ==
    \A n \in Ids :
        pendingPos[n] # NoPos =>
            \E t \in timers : t.id = n /\ <<t.x, t.y>> = pendingPos[n]

\* C2: position changes to one note, each arriving before the timer fires,
\* lead to exactly one store write, dispatched after the last change and
\* carrying its position; no intermediate position is written.  While the
\* burst runs exactly one timer is pending and carries the last position;
\* once it has fired the last position has been dispatched; and every
\* dispatched position write carries the last position given for its note.
C2_LastWriteWins ==
    /\ [](\A n \in Ids :
            burst.ids = {n} =>
                IF timers = {}
                THEN pendingPos[n] = NoPos
                ELSE /\ Cardinality(timers) = 1
                     /\ \A t \in timers :
                            t.id = n /\ <<t.x, t.y>> = pendingPos[n])
    /\ [][\A q \in requests' :
            (Sent(q) /\ q.kind = "position") =>
                /\ <<q.patch.canvas_x, q.patch.canvas_y>> = pendingPos[q.id]
                /\ pendingPos'[q.id] = NoPos]_vars

C2_Witness ==
    /\ lastOp.op = "savePositionUpdate"
    /\ burst.ids = {1}
    /\ burst.changes = 2
    /\ timers = {}
    /\ \E q \in requests :
           /\ q.kind = "position" /\ q.id = 1
           /\ \E k \in 1..Len(notes) :
                  /\ notes[k].id = 1
                  /\ notes[k].canvas_x = q.patch.canvas_x
                  /\ notes[k].canvas_y = q.patch.canvas_y

\* C3: when the store refuses a delete, an error is shown and the local
\* collection is again exactly the collection from just before the
\* optimistic removal.
C3_DeleteRollback ==
    [][\A a \in responses :
          (Resumed(a) /\ a.kind = "delete" /\ ~ a.ok) =>
              /\ notes' = a.orig
              /\ a.id \in IdsOf(notes')
              /\ toast'.type = "error"]_vars

C3_Witness ==
    /\ lastOp.op = "deleteNote.failed"
    /\ toast = Toast("Error deleting note", "error")
    /\ Len(notes) = 2

\* C4: an answered single-field update replaces the local record of that id
\* by the record the store returned and changes no other record; a refused
\* one shows an error and leaves the local collection as it is.
C4_UpdateEcho ==
    [][\A a \in responses :
          (Resumed(a) /\ a.kind = "update") =>
              IF a.ok
              THEN /\ Len(notes') = Len(notes)
                   /\ \A k \in 1..Len(notes) :
                          notes'[k] = IF notes[k].id = a.id
                                      THEN a.data[1] ELSE notes[k]
              ELSE /\ notes' = notes
                   /\ toast'.type = "error"]_vars

C4_Witness ==
    /\ lastOp.op = "update.done"
    /\ \E k \in 1..Len(notes) : notes[k].is_pinned /\ notes[k].text = "b"

\* C5: from armed(id), finishing on a target other than id writes
\* stack_id = target for note id; when the store answers, note id becomes
\* the echoed record with that stack_id, no other note changes, and the
\* stacking state is inactive.
C5_FinishStackCommits ==
    [][/\ \A q \in requests' :
            (Sent(q) /\ q.origin = "stack") =>
                /\ lastOp'.op = "handleFinishStack"
                /\ stackingNoteId # Null
                /\ q.id = stackingNoteId
                /\ q.patch = [stack_id |-> lastOp'.id]
                /\ lastOp'.id # stackingNoteId
       /\ \A a \in responses :
            (Resumed(a) /\ a.origin = "stack" /\ a.ok) =>
                /\ stackingNoteId' = Null
                /\ Len(notes') = Len(notes)
                /\ \A k \in 1..Len(notes) :
                       IF notes[k].id = a.id
                       THEN /\ notes'[k] = a.data[1]
                            /\ notes'[k].stack_id = a.patch.stack_id
                       ELSE notes'[k] = notes[k]]_vars

C5_Witness ==
    /\ lastOp.op = "update.done"
    /\ toast = Toast("Notes stacked successfully!", "success")
    /\ stackingNoteId = Null
    /\ \E k \in 1..Len(notes) :
           notes[k].stack_id # Null /\ notes[k].stack_id # notes[k].id

\* C6: finishing on the source itself, or finishing while inactive, sends
\* no store call, changes no note and leaves the stacking state as it was.
C6_SelfTargetNoOp ==
    [][(/\ lastOp'.op \in {"handleFinishStack", "handleFinishStack.return"}
        /\ (stackingNoteId = Null \/ stackingNoteId = lastOp'.id)) =>
            /\ stackingNoteId' = stackingNoteId
            /\ notes' = notes
            /\ requests' = requests
            /\ responses' = responses
            /\ db' = db]_vars

C6_Witness ==
    /\ lastOp.op = "handleFinishStack.return"
    /\ stackingNoteId # Null
    /\ stackingNoteId = lastOp.id

\* C7: start-stacking on the armed note, or the cancel button, makes the
\* stacking state inactive; start-stacking while inactive arms the note;
\* neither changes a note or sends a store call.
C7_StartCancel ==
    [][/\ lastOp'.op = "handleStartStack" =>
            /\ stackingNoteId = lastOp'.id => stackingNoteId' = Null
            /\ stackingNoteId = Null => stackingNoteId' = lastOp'.id
            /\ notes' = notes /\ requests' = requests /\ db' = db
       /\ lastOp'.op = "cancelStack" =>
            /\ stackingNoteId' = Null
            /\ notes' = notes /\ requests' = requests /\ db' = db]_vars

C7_Witness ==
    /\ lastOp.op = "handleStartStack"
    /\ stackingNoteId = Null
    /\ lastOp.id \in IdsOf(notes)

\* C8: every non-null stack_id in the local collection is the id of another
\* note of the collection, never the note's own id.
C8_StackReference ==
    \A k \in 1..Len(notes) :
        notes[k].stack_id # Null =>
            /\ notes[k].stack_id # notes[k].id
            /\ notes[k].stack_id \in IdsOf(notes)

Released == gesture.phase = "pressed" /\ gesture'.phase = "released"

\* C9: a drag whose screen distance from the press point stays below 5 px
\* commits no position (no position change, no timer, no store call) and
\* fires the view action exactly once, at every zoom.
C9_ClickBelowThreshold ==
    [][(Released /\ gesture'.reach < DragThreshold) =>
            /\ gesture'.views = 1
            /\ gesture'.commits = 0
            /\ viewingNote' = dragNote
            /\ notes' = notes
            /\ timers' = timers
            /\ requests' = requests
            /\ gesture'.legacy.kind = "view"]_vars

C9_Witness ==
    /\ gesture.phase = "released"
    /\ gesture.reach = DragThreshold - 1
    /\ gesture.views = 1
    /\ gesture.commits = 0
    /\ scale = Rat(1, 5)

\* what a committing release must have done: one commit, no view, at
\* startPosition + (release - press) / scale, applied to the dragged note
Committed ==
    /\ gesture'.commits = 1
    /\ gesture'.views = 0
    /\ RMul(RSub(gesture'.committed[1], gesture'.startPos[1]), scale)
           = R(gesture'.release[1] - gesture'.press[1])
    /\ RMul(RSub(gesture'.committed[2], gesture'.startPos[2]), scale)
           = R(gesture'.release[2] - gesture'.press[2])
    /\ \A k \in 1..Len(notes') :
           notes'[k].id = dragNote =>
               <<notes'[k].canvas_x, notes'[k].canvas_y>> = gesture'.committed

C11_CyclicNavigation ==
    probe.fn = "nav" =>
        /\ probe.idx \in 0..(probe.n - 1)
        /\ probe.idx = (probe.start + probe.nexts - probe.prevs) % probe.n
        /\ probe.last = "next" => probe.idx = (probe.from + 1) % probe.n
        /\ probe.last = "prev" => probe.idx = (probe.from - 1) % probe.n
        /\ (probe.last = "next" /\ probe.from = probe.n - 1) => probe.idx = 0
        /\ (probe.last = "prev" /\ probe.from = 0) => probe.idx = probe.n - 1
        /\ (probe.nexts = probe.n /\ probe.prevs = 0) => probe.idx = probe.start
        /\ (probe.prevs = probe.n /\ probe.nexts = 0) => probe.idx = probe.start
        /\ probe.nexts = probe.prevs => probe.idx = probe.start

C11_Witness ==
    /\ probe.fn = "nav"
    /\ probe.n = MaxSlides
    /\ probe.start = 0
    /\ probe.last = "prev"
    /\ probe.from = 0
    /\ probe.idx = MaxSlides - 1
    /\ probe.prevs = 1
    /\ probe.nexts = MaxSlides

IdSeq(ns) == [k \in 1..Len(ns) |-> ns[k].id]

\* C12: a step that changes the carousel set (which notes it holds, or their
\* order) leaves activeIndex at 0, also when the size of the set is the same.
C12_ResetOnSetChange ==
    [][IdSeq(Carousel') # IdSeq(Carousel) => activeIndex' = 0]_vars

\* C13: while the carousel is shown activeIndex is an index of the carousel
\* set, exactly one slide has offset 0, and that slide has opacity 1, z-order
\* 100 and is the only one that accepts pointer input.
C13_OneActiveSlide ==
    CarouselShown =>
        /\ activeIndex \in 0..(Len(Carousel) - 1)
        /\ Cardinality({k \in 1..Len(Carousel) : Slides[k].offset = 0}) = 1
        /\ \A k \in 1..Len(Carousel) :
               IF Slides[k].offset = 0
               THEN /\ Slides[k].opacity = 1
                    /\ Slides[k].zIndex = 100
                    /\ Slides[k].pointerEvents = "auto"
               ELSE /\ Slides[k].zIndex < 100
                    /\ Slides[k].pointerEvents = "none"

\* C14: in carousel view a jump to a note of the carousel set makes
\* activeIndex that note's position; a jump to a note that is not in the set
\* shows an error and changes neither activeIndex nor anything else.
C14_NavigateToNote ==
    [][(lastOp'.op = "handleNavigateToNote" /\ viewMode = "carousel") =>
          IF lastOp'.id \in IdsOf(Carousel)
          THEN /\ activeIndex' \in 0..(Len(Carousel) - 1)
               /\ Carousel[activeIndex' + 1].id = lastOp'.id
               /\ UNCHANGED <<notes, storeVars, stackingNoteId, filterVars, toast>>
          ELSE /\ toast'.type = "error"
               /\ UNCHANGED <<notes, storeVars, stackingNoteId, filterVars,
                              activeIndex, timerVars, dragVars, canvasVars>>]_vars

C14_Witness ==
    /\ lastOp.op = "handleNavigateToNote"
    /\ toast = Toast("Could not find the selected note.", "error")
    /\ lastOp.id \in IdsOf(notes)
    /\ Find(notes, lastOp.id).stack_id # Null
    /\ Len(Carousel) > 0

\* the same letter in either case
SameLetter(c, d) ==
    \/ c = d
    \/ \E pair \in {{"a", "A"}, {"b", "B"}, {"c", "C"}} : {c, d} = pair

SubstringIgnoringCase(str, part) ==
    \E k \in 0..(Len(str) - Len(part)) :
        \A j \in 1..Len(part) :
            SameLetter(SubSeq(str, k + j, k + j), SubSeq(part, j, j))

TagsOf(n) == IF "tags" \in DOMAIN n THEN n.tags ELSE <<>>
SummaryOf(n) == IF "summary" \in DOMAIN n THEN n.summary ELSE ""
InSeq(e, sq) == \E k \in 1..Len(sq) : sq[k] = e

ShouldMatch(n, term, tags) ==
    /\ \/ term = ""
       \/ SubstringIgnoringCase(n.text, term)
       \/ SubstringIgnoringCase(SummaryOf(n), term)
       \/ \E k \in 1..Len(TagsOf(n)) : SubstringIgnoringCase(TagsOf(n)[k], term)
    /\ \/ tags = <<>>
       \/ \A j \in 1..Len(tags) : InSeq(tags[j], TagsOf(n))

\* C15: a note is in the filtered result iff (the term is empty or a
\* case-insensitive substring of its text, summary or one of its tags) and
\* (no tag filter is active or its tags hold every active tag); absent tags
\* count as no tags.
C15_FilterMembership ==
    (probe.fn = "filter" /\ probe.done) =>
        /\ \A k \in 1..Len(probe.ns) :
               InSeq(probe.ns[k], probe.out)
                   <=> ShouldMatch(probe.ns[k], probe.term, probe.tags)
        /\ \A k \in 1..Len(probe.out) : InSeq(probe.out[k], probe.ns)
        /\ Len(probe.out)
               = Cardinality({k \in 1..Len(probe.ns) :
                                 ShouldMatch(probe.ns[k], probe.term, probe.tags)})

C15_Witness ==
    /\ probe.fn = "filter" /\ probe.done
    /\ probe.term = "by"
    /\ probe.tags = <<"x">>
    /\ Len(probe.ns) = MaxFiltered
    /\ Len(probe.out) = 1
    /\ \E k \in 1..Len(probe.ns) : "tags" \notin DOMAIN probe.ns[k]

\* C16: the filtered list is the matching pinned notes in collection order
\* followed by the matching unpinned notes in collection order; a note
\* without is_pinned is unpinned.
C16_StablePinnedFirst ==
    (probe.fn = "filter" /\ probe.done) =>
        LET matching == SelectSeq(probe.ns,
                            LAMBDA n : ShouldMatch(n, probe.term, probe.tags))
            pinned(n) == "is_pinned" \in DOMAIN n /\ n.is_pinned = TRUE
        IN  probe.out = SelectSeq(matching, pinned)
                            \o SelectSeq(matching, LAMBDA n : ~ pinned(n))

C16_Witness ==
    /\ probe.fn = "filter" /\ probe.done
    /\ probe.term = ""
    /\ probe.tags = <<>>
    /\ Len(probe.ns) = 3
    /\ "is_pinned" \notin DOMAIN probe.ns[1]
    /\ "is_pinned" \in DOMAIN probe.ns[2] /\ probe.ns[2].is_pinned
    /\ "is_pinned" \in DOMAIN probe.ns[3] /\ ~ probe.ns[3].is_pinned
    /\ IdSeq(probe.out) = <<2, 1, 3>>

\* C17: the tidy grid has max(1, floor(w / (noteWidth + gapX))) columns for
\* the container width w, note i gets row floor(i / columns) and column
\* i mod columns below the column count, no two notes share a cell or a
\* position, and a second run on the same input gives the same positions.
C17_TidyGrid ==
    (probe.fn = "tidy" /\ probe.runs >= 1) =>
        LET cols == probe.columns
            cell == NOTE_WIDTH + GAP_X
        IN  /\ cols >= 1
            \* cols * cell <= 0.95 * w < (cols + 1) * cell, or one column
            /\ \/ cols * cell * 100 <= 95 * probe.w
               \/ cols = 1
            /\ 95 * probe.w < (cols + 1) * cell * 100
            /\ Len(probe.first) = probe.k
            /\ \A i \in 1..probe.k :
                   /\ probe.first[i].row * cols + probe.first[i].col = i - 1
                   /\ probe.first[i].col \in 0..(cols - 1)
                   /\ probe.first[i].row >= 0
            /\ \A i, j \in 1..probe.k :
                   i # j =>
                       /\ <<probe.first[i].row, probe.first[i].col>>
                              # <<probe.first[j].row, probe.first[j].col>>
                       /\ <<probe.first[i].canvas_x, probe.first[i].canvas_y>>
                              # <<probe.first[j].canvas_x, probe.first[j].canvas_y>>
            /\ probe.runs = 2 => probe.second = probe.first

C17_Witness ==
    /\ probe.fn = "tidy"
    /\ probe.runs = 2
    /\ probe.k = MaxTidy
    /\ probe.columns = 2
    /\ probe.first[MaxTidy].row >= 2
    /\ probe.second = probe.first

\* C18: the zoom scale stays within [MIN_SCALE, MAX_SCALE] whatever the
\* wheel, the pinch, the zoom buttons, pans and resets do, and a zoom about
\* a point computes the new offset with the clamped scale it stores.
C18_ScaleClamped ==
    /\ RLe(Rat(2, 10), scale)
    /\ RLe(scale, R(2))
    /\ zoomed.kind \in {"wheel", "pinch"} =>
           /\ zoomed.used = scale
           /\ offset = <<AnchorShift(zoomed.before.x, zoomed.anchor[1],
                                     zoomed.before.scale, scale),
                         AnchorShift(zoomed.before.y, zoomed.anchor[2],
                                     zoomed.before.scale, scale)>>

C18_Witness ==
    /\ zoomed.kind = "wheel"
    /\ zoomed.before.scale = R(1)
    /\ zoomed.before.x # R(0)
    /\ scale = R(2)
    /\ zoomed.anchor = <<R(40), R(20)>>

\* the canvas coordinate under a screen point
CanvasCoordinate(point, off, s) == RDiv(RSub(point, off), s)

\* C19: a zoom about a point (wheel at the cursor, pinch at the midpoint)
\* leaves the canvas coordinate under the anchor as it was, also when the
\* requested scale was clamped.
C19_AnchorInvariance ==
    zoomed.kind \in {"wheel", "pinch"} =>
        /\ CanvasCoordinate(zoomed.anchor[1], zoomed.before.x, zoomed.before.scale)
               = CanvasCoordinate(zoomed.anchor[1], offset[1], scale)
        /\ CanvasCoordinate(zoomed.anchor[2], zoomed.before.y, zoomed.before.scale)
               = CanvasCoordinate(zoomed.anchor[2], offset[2], scale)

C19_Witness ==
    /\ zoomed.kind = "pinch"
    /\ scale = Rat(1, 5)
    /\ zoomed.before.scale = Rat(1, 2)
    /\ zoomed.before.x # R(0)
    /\ zoomed.anchor = <<Rat(3, 2), R(2)>>

\* C20: a position change sets canvas_x and canvas_y of that note in the
\* local collection in the same step, before any store write is sent; it
\* changes no other field and no other note.  A refused position write shows
\* an error and changes no note; an accepted one changes no note either.
C20_OptimisticPosition ==
    [][/\ lastOp'.op = "handleNotePositionUpdate" =>
            \E t \in timers' :
                /\ t.handle = timeout'
                /\ t.id \in IdsOf(notes)
                /\ Len(notes') = Len(notes)
                /\ \A k \in 1..Len(notes) :
                       IF notes[k].id = t.id
                       THEN /\ notes'[k].canvas_x = t.x
                            /\ notes'[k].canvas_y = t.y
                            /\ DOMAIN notes'[k] = DOMAIN notes[k]
                            /\ \A f \in DOMAIN notes[k] \ {"canvas_x", "canvas_y"} :
                                   notes'[k][f] = notes[k][f]
                       ELSE notes'[k] = notes[k]
                /\ requests' = requests
                /\ db' = db
       /\ \A a \in responses :
            (Resumed(a) /\ a.kind = "position") =>
                /\ notes' = notes
                /\ ~ a.ok => toast'.type = "error"]_vars

C20_Witness ==
    /\ lastOp.op = "savePositionUpdate.failed"
    /\ toast = Toast("Could not save note position", "error")
    /\ \E k \in 1..Len(notes) :
           /\ notes[k].id = 1
           /\ notes[k].canvas_x # NullNum
           /\ \E r \in db : r.id = 1 /\ r.canvas_x = NullNum

\* the position a note of the collection holds
PosOf(ns, i) == <<Find(ns, i).canvas_x, Find(ns, i).canvas_y>>

\* C21: a tidy over a non-empty filtered list moves every filtered note to
\* its computed cell at once, leaves the other notes alone and sends exactly
\* one upsert with one entry per filtered note and no message yet; the answer
\* brings exactly one message, success or error, and leaves the collection
\* as tidied.  A tidy over an empty filtered list shows an error, sends
\* nothing and changes no note and no row.
C21_TidyBatch ==
    [][LET f == FilteredNotes(notes, searchTerm, activeTags)
       IN  /\ lastOp'.op \in {"handleTidyCanvas", "handleTidyCanvas.return"}
                 => (lastOp'.op = "handleTidyCanvas" <=> Len(f) > 0)
           /\ lastOp'.op = "handleTidyCanvas" =>
                 /\ \E q \in requests' :
                       /\ requests' = requests \cup {q}
                       /\ q \notin requests
                       /\ q.kind = "upsert"
                       /\ Len(q.patch.updates) = Len(f)
                       /\ \A k \in 1..Len(f) :
                             /\ q.patch.updates[k].id = f[k].id
                             /\ PosOf(notes', f[k].id)
                                    = <<q.patch.updates[k].canvas_x,
                                        q.patch.updates[k].canvas_y>>
                 /\ IdSeq(notes') = IdSeq(notes)
                 /\ \A k \in 1..Len(notes) :
                       \/ notes'[k] = notes[k]
                       \/ /\ InSeq(notes[k], f)
                          /\ notes'[k] = ApplyPatch(notes[k],
                                 [canvas_x |-> notes'[k].canvas_x,
                                  canvas_y |-> notes'[k].canvas_y])
                 /\ toast' = toast
                 /\ db' = db
           /\ lastOp'.op = "handleTidyCanvas.return" =>
                 /\ toast'.type = "error"
                 /\ UNCHANGED <<notes, db, requests, responses>>
           /\ \A a \in responses :
                 (Resumed(a) /\ a.kind = "upsert") =>
                     /\ notes' = notes
                     /\ requests' = requests
                     /\ toast'.type = (IF a.ok THEN "success" ELSE "error")
      ]_vars

\* a tidy of both notes was refused by the store and reported, and the
\* collection holds the tidied cells while the store holds the old positions
C21_Witness ==
    /\ lastOp.op = "handleUpdateNotePositions.failed"
    /\ toast.type = "error"
    /\ Len(notes) = 2
    /\ PosOf(notes, notes[1].id) = <<R(GAP_X), R(GAP_Y)>>
    /\ PosOf(notes, notes[2].id) = <<R(NOTE_WIDTH + 2 * GAP_X), R(GAP_Y)>>
    /\ db = LoadedRows

\* the value an imported record must carry for a defaulted field
Imported(r, f, nulls, fallback) ==
    IF f \in DOMAIN r /\ r[f] \notin nulls THEN r[f] ELSE fallback

\* the records of a file that an import may add: with an id and a text, and
\* an id the collection does not hold
Importable(file, ns) ==
    SelectSeq(file.items, LAMBDA r : /\ "id" \in DOMAIN r
                                     /\ "text" \in DOMAIN r
                                     /\ r.id \notin IdsOf(ns))

\* C22: when the file is read, the import sends one batched insert of exactly
\* the file's records that carry an id and a text and whose id is not in the
\* collection the import was started on, each with is_pinned, tags, canvas_x
\* and canvas_y defaulted to false, [], 0 and 0 where the file lacks them,
\* and changes no note; when the insert succeeded exactly its records are put
\* in front of the collection, whose notes stay as they were; when the insert
\* failed, or the file holds no array, an error is shown and the collection
\* is unchanged.
C22_Import ==
    [][/\ \A q \in requests :
            (q.kind = "read" /\ q \notin requests') =>
                LET new == Importable(q.patch, q.orig)
                    sent == {p \in requests' : p \notin requests}
                IN  /\ notes' = notes
                    /\ db' = db
                    /\ ~ q.patch.isArray =>
                           sent = {} /\ toast'.type = "error"
                    /\ (q.patch.isArray /\ Len(new) = 0) => sent = {}
                    /\ (q.patch.isArray /\ Len(new) > 0) =>
                           /\ Cardinality(sent) = 1
                           /\ \A p \in sent :
                                 /\ p.kind = "import"
                                 /\ Len(p.patch.items) = Len(new)
                                 /\ \A k \in 1..Len(new) :
                                       /\ p.patch.items[k].id = new[k].id
                                       /\ p.patch.items[k].text = new[k].text
                                       /\ p.patch.items[k].is_pinned
                                              = Imported(new[k], "is_pinned", {}, FALSE)
                                       /\ p.patch.items[k].tags
                                              = Imported(new[k], "tags", {}, <<>>)
                                       /\ p.patch.items[k].canvas_x
                                              = Imported(new[k], "canvas_x", {NullNum}, R(0))
                                       /\ p.patch.items[k].canvas_y
                                              = Imported(new[k], "canvas_y", {NullNum}, R(0))
       /\ \A a \in responses :
            (Resumed(a) /\ a.kind = "import") =>
                IF a.ok
                THEN notes' = a.patch.items \o notes
                ELSE /\ notes' = notes
                     /\ toast'.type = "error"
      ]_vars

\* note 2 was deleted and then imported from a file that holds only its id
\* and text: it stands in front of note 1 with the four defaults
C22_Witness ==
    /\ lastOp.op = "handleImport.done"
    /\ Len(notes) = 2
    /\ notes[1] = [id |-> 2, text |-> "a", stack_id |-> Null,
                   is_pinned |-> FALSE, tags |-> <<>>,
                   canvas_x |-> R(0), canvas_y |-> R(0)]
    /\ notes[2] = LoadedNotes[2]

\* C23: the collection is emptied when the session ends and is empty in
\* every state without a session, also when a fetch of the notes that began
\* during the session is answered after the sign-out.
C23_EmptyWithoutSession == ~ session => notes = <<>>

\* the recognizer is idle: no pan under way and no baseline of a pinch
GestureIdle == ~ panning.isPanning /\ pinchStartDistance = 0

\* C24: when the touches are released the recognizer is idle, whatever came
\* before, and a mouse release ends the pan and sets no pinch baseline; while
\* the recognizer is idle no pointer move changes the offset or the scale
\* (only the wheel, the zoom buttons and the reset do); a press of two
\* touches leaves the recognizer not panning, with the distance of the two
\* touches as the baseline and the offset and scale as they were.
C24_GestureIdle ==
    [][/\ lastOp'.op = "canvas.handleTouchEnd" => GestureIdle'
       /\ lastOp'.op = "canvas.handleMouseUp" =>
              /\ ~ panning'.isPanning
              /\ pinchStartDistance' = pinchStartDistance
       /\ lastOp'.op \in {"canvas.handleTouchEnd", "canvas.handleMouseUp"} =>
              offset' = offset /\ scale' = scale
       /\ (GestureIdle /\ (offset' # offset \/ scale' # scale)) =>
              lastOp'.op \in {"canvas.handleWheel", "canvas.handleZoom",
                              "canvas.resetView"}
       /\ (lastOp'.op = "canvas.handleTouchStart" /\ lastOp'.id = 2) =>
              /\ ~ panning'.isPanning
              /\ offset' = offset /\ scale' = scale
      ]_vars

\* the touches were released after a pinch that changed the scale: the
\* recognizer is idle
C24_Witness ==
    /\ lastOp.op = "canvas.handleTouchEnd"
    /\ zoomed.kind = "pinch"
    /\ scale # R(1)
    /\ GestureIdle

\* C25: stacks have one level: no note that is stacked on another note is
\* itself the note that some note is stacked on.
C25_SingleLevel ==
    \A j, k \in 1..Len(notes) :
        notes[j].stack_id # Null => notes[k].stack_id # notes[j].id

\* no timer is pending and no store call is under way
Quiescent == timers = {} /\ requests = {} /\ responses = {}

\* the store's row of a note holds the position the collection holds
PositionStored(n) ==
    \E r \in db : /\ r.id = n.id
                  /\ r.canvas_x = n.canvas_x
                  /\ r.canvas_y = n.canvas_y

\* an update's answer leaves the position of a note whose position write is
\* not yet dispatched
EchoKeepsPendingPosition ==
    [][\A a \in responses :
          (/\ Resumed(a) /\ a.kind = "update" /\ a.ok
           /\ a.id \in IdsOf(notes)
           /\ pendingPos[a.id] # NoPos)
              => PosOf(notes', a.id) = PosOf(notes, a.id)]_vars

\* C26: when every write succeeds, in every state without a pending timer
\* and without a store call under way each note of the collection has the
\* position the store holds for it; and an update's answer that arrives while
\* a position write of the same note is pending leaves the note's position.
C26_QuiescentPositions ==
    /\ [](Quiescent => \A k \in 1..Len(notes) : PositionStored(notes[k]))
    /\ EchoKeepsPendingPosition

\* C27: the rollback of a failed delete puts back only the note whose delete
\* failed: every note the collection held before the rollback is still in
\* it, as it was, and no other id comes back.
C27_RollbackOnlyFailed ==
    [][\A a \in responses :
          (Resumed(a) /\ a.kind = "delete" /\ ~ a.ok) =>
              /\ \A k \in 1..Len(notes) : InSeq(notes[k], notes')
              /\ IdsOf(notes') \subseteq IdsOf(notes) \cup {a.id}]_vars

\* C29: the ids of the collection are pairwise different.
C29_UniqueIds == \A j, k \in 1..Len(notes) : notes[j].id = notes[k].id => j = k

\* C28: the answer of an update changes no id of the collection and no note
\* but the one with the echoed id; when that note was removed meanwhile the
\* collection stays as it is, and the note is not put back.
C28_EchoKeepsIds ==
    [][\A a \in responses :
          (Resumed(a) /\ a.kind = "update") =>
              /\ IdSeq(notes') = IdSeq(notes)
              /\ \A k \in 1..Len(notes) :
                    notes[k].id # a.id => notes'[k] = notes[k]
              /\ a.id \notin IdsOf(notes) => notes' = notes]_vars

\* the answer of a pin toggle was applied after every note had been removed
\* from the collection: the store holds the pinned row, the collection is
\* empty
C28_Witness ==
    /\ lastOp.op = "update.done"
    /\ notes = <<>>
    /\ \E r \in db : r.is_pinned

\* C30: when the store refused the write of a stacking commit, an error is
\* shown, no note changes and the stacking state stays as it was, armed with
\* the same source; the stacking state becomes inactive only by a commit the
\* store accepted, by the toggle of the source's stack button or by the
\* cancel button.
C30_FailedCommitStaysArmed ==
    [][/\ \A a \in responses :
            (Resumed(a) /\ a.kind = "update" /\ a.origin = "stack" /\ ~ a.ok) =>
                /\ toast'.type = "error"
                /\ notes' = notes
                /\ stackingNoteId' = stackingNoteId
       /\ (stackingNoteId # Null /\ stackingNoteId' = Null) =>
              \/ lastOp'.op \in {"handleStartStack", "cancelStack"}
              \/ \E a \in responses :
                    Resumed(a) /\ a.kind = "update" /\ a.origin = "stack" /\ a.ok
      ]_vars

\* a stacking commit was refused: the error is shown, the source is still
\* armed and no note is stacked, in the collection or in the store
C30_Witness ==
    /\ lastOp.op = "update.failed"
    /\ toast = Toast("Error stacking note", "error")
    /\ stackingNoteId # Null
    /\ stackingNoteId \in IdsOf(notes)
    /\ \A k \in 1..Len(notes) : notes[k].stack_id = Null
    /\ \A r \in db : r.stack_id = Null

====
